---- MODULE Spec2Model ----
(***************************************************************************)
(* Evaluation orchestration core of ai-cv-analyzer: the job record and     *)
(* its status writes (EvaluationService), the Bull handler                 *)
(* EvaluationProcessor.handleEvaluation with its concurrent completion     *)
(* calls, and LLMService.generateCompletion with its rate limiters.        *)
(*                                                                         *)
(* One step of the model is one turn of the Node event loop: the code that *)
(* runs between two awaits is one atomic action.  Texts are sequences of   *)
(* words; a nullable column is <<>> (null) or <<v>>.  Date.now() is the    *)
(* coarse clock `now`, in milliseconds.                                     *)
(***************************************************************************)
EXTENDS Integers, Sequences, FiniteSets, TLC

\* ------------------------------------------------------------------ bounds

\* Adverse events the environment may inject in one run.
MaxFaults == 3
\* The clock stops advancing here.
MaxNow == 60000
\* One step of the clock.
TickMs == 60000

\* ------------------------------------------------------- nullable values

Null == <<>>
Some(v) == <<v>>
IsSet(x) == x # Null
Val(x) == x[1]

\* ------------------------------------------------------------ configuration

\* src/config/llm.config.ts
llmConfig ==
  [ retry |-> [maxAttempts |-> 3, backoffMs |-> 1000, backoffMultiplier |-> 2],
    providers |->
      << [name |-> "gemini", priority |-> 1, rateLimit |-> [rpm |-> 15],
          model |-> "gemini-1.5-flash"],
         [name |-> "openrouter", priority |-> 2, rateLimit |-> [rpm |-> 20],
          model |-> "meta-llama/llama-3.1-8b-instruct:free"] >> ]

ProviderNames == {llmConfig.providers[i].name : i \in DOMAIN llmConfig.providers}

ProviderConfig(name) ==
  CHOOSE p \in {llmConfig.providers[i] : i \in DOMAIN llmConfig.providers} :
    p.name = name

\* BullModule defaultJobOptions.attempts
QueueAttempts == 3
\* markRateLimited / trackRequest: the window, and the count a 429 forces
RateWindowMs == 60000
MarkedCount == 999

\* ------------------------------------------------------------- the inputs

\* What a provider call can throw: { status, message }.  status 0: no status.
Err429 == [status |-> 429, message |-> <<"Resource", "exhausted">>]
ErrTooMany == [status |-> 0, message |-> <<"Too", "Many", "Requests">>]
Err500 == [status |-> 500, message |-> <<"Internal", "error">>]
ProviderErrors == {Err429, Err500}

\* Model output texts are token sequences.  FenceJson and Fence are the two
\* markdown code-fence markers.
FenceJson == "[fence json]"
Fence == "[fence]"

\* ------------------------------------------------ LLMService: pure helpers

\* Array.prototype.sort by priority, as a sequence of names.
RECURSIVE SortByPriority(_)
SortByPriority(S) ==
  IF S = {} THEN <<>>
  ELSE LET first == CHOOSE p \in S :
                      \A q \in S : ProviderConfig(p).priority
                                     <= ProviderConfig(q).priority
       IN <<first>> \o SortByPriority(S \ {first})

\* getSortedProviders putting any hint first without looking at it.
getSortedProvidersHintFirst(has, preferred) ==
  IF IsSet(preferred) THEN <<Val(preferred)>> \o SortByPriority(has)
  ELSE SortByPriority(has)

\* getSortedProviders(preferredProvider): `has` is the set of initialised
\* providers (this.providers), preferred is Null or <<name>>.
getSortedProviders(has, preferred) ==
  LET allProviders == SortByPriority(has)
  IN IF IsSet(preferred) /\ Val(preferred) \in has
     THEN <<Val(preferred)>>
            \o SelectSeq(allProviders, LAMBDA p : p # Val(preferred))
     ELSE allProviders

\* String.prototype.toLowerCase, word by word.
LowerWord(w) ==
  CASE w = "Too" -> "too"
    [] w = "Many" -> "many"
    [] w = "Requests" -> "requests"
    [] w = "Rate" -> "rate"
    [] w = "Limit" -> "limit"
    [] w = "Quota" -> "quota"
    [] w = "Exceeded" -> "exceeded"
    [] w = "Resource" -> "resource"
    [] w = "Internal" -> "internal"
    [] w = "TOO" -> "too"
    [] w = "MANY" -> "many"
    [] w = "REQUESTS" -> "requests"
    [] w = "RATE" -> "rate"
    [] w = "LIMIT" -> "limit"
    [] w = "QUOTA" -> "quota"
    [] w = "EXCEEDED" -> "exceeded"
    [] w = "INTERNAL" -> "internal"
    [] w = "ERROR" -> "error"
    [] w = "Error" -> "error"
    [] OTHER -> w

toLowerCase(msg) == [i \in DOMAIN msg |-> LowerWord(msg[i])]

\* String.prototype.includes on word sequences.
includes(msg, part) ==
  \E i \in 0..(Len(msg) - Len(part)) :
    \A j \in 1..Len(part) : msg[i + j] = part[j]

\* isRateLimitError looking at the status only.
isRateLimitErrorByStatus(error) == error.status = 429

isRateLimitError(error) ==
  LET message == toLowerCase(error.message)
      status == error.status
  IN \/ status = 429
     \/ includes(message, <<"rate", "limit">>)
     \/ includes(message, <<"too", "many", "requests">>)
     \/ includes(message, <<"quota", "exceeded">>)

\* isRateLimited without its check of the limiter.
isRateLimitedNever(rl, name, t) == [limited |-> FALSE, rl |-> rl]

\* isRateLimited looking at the count only, never at the reset time.
isRateLimitedStale(rl, name, t) ==
  [limited |-> IsSet(rl[name])
                 /\ Val(rl[name]).count >= ProviderConfig(name).rateLimit.rpm,
   rl |-> rl]

\* isRateLimited(providerName) at time t on limiter map rl: the answer, and
\* the map after the call (an elapsed window is deleted).
isRateLimited(rl, name, t) ==
  IF ~IsSet(rl[name]) THEN [limited |-> FALSE, rl |-> rl]
  ELSE IF t >= Val(rl[name]).resetAt
       THEN [limited |-> FALSE, rl |-> [rl EXCEPT ![name] = Null]]
       ELSE [limited |-> Val(rl[name]).count
                           >= ProviderConfig(name).rateLimit.rpm,
             rl |-> rl]

\* markRateLimited recording the failure as one more request of the window.
markRateLimitedAsRequest(rl, name, t) ==
  IF ~IsSet(rl[name]) \/ t >= Val(rl[name]).resetAt
  THEN [rl EXCEPT ![name] = Some([count |-> 1, resetAt |-> t + RateWindowMs])]
  ELSE [rl EXCEPT ![name] =
          Some([count |-> Val(rl[name]).count + 1,
                resetAt |-> Val(rl[name]).resetAt])]

markRateLimited(rl, name, t) ==
  [rl EXCEPT ![name] = Some([count |-> MarkedCount, resetAt |-> t + RateWindowMs])]

\* trackRequest opening a new window at every success.
trackRequestRestarts(rl, name, t) ==
  [rl EXCEPT ![name] = Some([count |-> 1, resetAt |-> t + RateWindowMs])]

trackRequest(rl, name, t) ==
  IF ~IsSet(rl[name]) \/ t >= Val(rl[name]).resetAt
  THEN [rl EXCEPT ![name] = Some([count |-> 1, resetAt |-> t + RateWindowMs])]
  ELSE [rl EXCEPT ![name] =
          Some([count |-> Val(rl[name]).count + 1,
                resetAt |-> Val(rl[name]).resetAt])]

\* The head of the provider loop of generateCompletion (lines 98-106): from
\* position i of the try-order, skip the providers that are rate limited;
\* idx is the position of the provider to call, Len(order) + 1 if none is
\* left, skipped the providers passed over, in order.
RECURSIVE SkipLimited(_, _, _, _, _)
SkipLimited(has, order, i, rl, t) ==
  IF i > Len(order) THEN [idx |-> i, rl |-> rl, skipped |-> <<>>]
  ELSE IF order[i] \notin has THEN SkipLimited(has, order, i + 1, rl, t)
  ELSE LET r == isRateLimited(rl, order[i], t)
       IN IF r.limited
          THEN LET rest == SkipLimited(has, order, i + 1, r.rl, t)
               IN [rest EXCEPT !.skipped = <<order[i]>> \o @]
          ELSE [idx |-> i, rl |-> r.rl, skipped |-> <<>>]

\* Math.pow(multiplier, n)
RECURSIVE Pow(_, _)
Pow(b, n) == IF n = 0 THEN 1 ELSE b * Pow(b, n - 1)

\* The backoff with the exponent one too high.
BackoffMsFromAttempt(attempt) ==
  llmConfig.retry.backoffMs * Pow(llmConfig.retry.backoffMultiplier, attempt)

BackoffMs(attempt) ==
  llmConfig.retry.backoffMs * Pow(llmConfig.retry.backoffMultiplier, attempt - 1)

\* generateCompletion rethrowing the last provider error as it is.
LastErrorRethrown(lastError) ==
  IF IsSet(lastError) THEN Val(lastError)
  ELSE [status |-> 0, message |-> <<"Unknown", "error">>]

\* The aggregate error of generateCompletion (lines 152-155).
AllProvidersFailed(lastError) ==
  [status |-> 0,
   message |-> <<"All", "LLM", "providers", "failed.", "Last", "error:">>
                 \o (IF IsSet(lastError) THEN Val(lastError).message
                     ELSE <<"Unknown", "error">>)
                 \o <<"Please", "check", "your", "API", "keys", "and", "rate",
                      "limits.">>]

\* ------------------------------------------- EvaluationProcessor: helpers

\* A number: the quotient num/den; 0/0 is NaN.
Num(n, d) == [num |-> n, den |-> d]
IsNaN(x) == x.den = 0

\* JSON values of a member: a number, null, or undefined for a member that
\* is absent.  Weights are in hundredths.
JNumber(n) == [type |-> "number", value |-> n]
JNull == [type |-> "null", value |-> 0]
JUndefined == [type |-> "undefined", value |-> 0]

\* The criteria of a scores map, in the order of their serialisation.
Criteria == <<"technical_skills", "code_quality">>

\* The scores and the overall_feedback of an answer in the required format.
ScoresS ==
  [c \in {"technical_skills", "code_quality"} |->
     IF c = "technical_skills"
     THEN Some([score |-> JNumber(4), weight |-> JNumber(40)])
     ELSE Some([score |-> JNumber(3), weight |-> JNumber(60)])]
FeedbackS == <<"Solid", "candidate">>
FeedbackFenced == <<"Solid", Fence, "candidate">>
PayloadS == [scores |-> Some(ScoresS), overall_feedback |-> Some(FeedbackS)]

\* The objects a model can answer with: scores is absent or a map that gives
\* some of the criteria an item; an item has a score and a weight, each a
\* number, null or absent; overall_feedback is absent or a text.
ScoreValues == {JNumber(3), JNumber(4), JNumber(9), JNull, JUndefined}
WeightValues == {JNumber(40), JNumber(60), JUndefined}
Items == [score : ScoreValues, weight : WeightValues]
ScoreMaps ==
  [{"technical_skills", "code_quality"} -> {Null} \cup {Some(i) : i \in Items}]
Feedbacks == {FeedbackS, FeedbackFenced}
Payloads ==
  [scores : {Null} \cup {Some(m) : m \in ScoreMaps},
   overall_feedback : {Null} \cup {Some(f) : f \in Feedbacks}]

\* JSON.stringify of such an object, as tokens: an absent member is left
\* out, a text stands between quotes.
ValueText(v) == IF v.type = "number" THEN <<ToString(v.value)>> ELSE <<"null">>
MemberText(key, v) == IF v.type = "undefined" THEN <<>> ELSE <<key>> \o ValueText(v)
ItemText(item) ==
  <<"{">> \o MemberText("score:", item.score)
         \o MemberText("weight:", item.weight) \o <<"}">>

RECURSIVE ScoresText(_, _)
ScoresText(scores, i) ==
  IF i > Len(Criteria) THEN <<>>
  ELSE (IF IsSet(scores[Criteria[i]])
        THEN <<Criteria[i]>> \o ItemText(Val(scores[Criteria[i]]))
        ELSE <<>>) \o ScoresText(scores, i + 1)

JsonStringify(payload) ==
  <<"{">>
  \o (IF IsSet(payload.scores)
      THEN <<"scores:", "{">> \o ScoresText(Val(payload.scores), 1) \o <<"}">>
      ELSE <<>>)
  \o (IF IsSet(payload.overall_feedback)
      THEN <<"overall_feedback:", "\"">> \o Val(payload.overall_feedback)
           \o <<"\"">>
      ELSE <<>>)
  \o <<"}">>

JsonTexts == {[text |-> JsonStringify(p), value |-> p] : p \in Payloads}

\* JSON.parse of a '{'...'}' span: the object whose text the span is; a span
\* that is the text of no object does not decode.
JsonDecodes(span) == \E e \in JsonTexts : e.text = span
JsonDecode(span) == (CHOOSE e \in JsonTexts : e.text = span).value

\* The answers of a provider in the runs of a job: the required format
\* between fences, the object {}, and prose without an object.
GoodJson == <<FenceJson>> \o JsonStringify(PayloadS) \o <<Fence>>
EmptyObject == <<"{", "}">>
NoJson == <<"Sorry,", "no", "answer">>
Contents == {GoodJson, EmptyObject, NoJson}

\* What a provider call can return: the text and the reported total tokens.
Completions ==
  { [content |-> GoodJson, total |-> 7],
    [content |-> EmptyObject, total |-> 0],
    [content |-> NoJson, total |-> 5] }

\* parseJSONResponse(content): strip the fence markers, take the span from
\* the first '{' to the last '}', decode it; any failure is rethrown as
\* 'Failed to parse LLM response: ...'.
ParseError(inner) ==
  [status |-> 0,
   message |-> <<"Failed", "to", "parse", "LLM", "response:">> \o inner]

\* parseJSONResponse that answers a text it cannot decode with the required
\* format instead of an error.
parseJSONResponseOrDefault(content) ==
  LET cleanedContent == SelectSeq(content, LAMBDA t : t \notin {FenceJson, Fence})
      opens == {i \in DOMAIN cleanedContent : cleanedContent[i] = "{"}
      closes == {i \in DOMAIN cleanedContent : cleanedContent[i] = "}"}
      first == CHOOSE i \in opens : \A j \in opens : i <= j
      last == CHOOSE i \in closes : \A j \in closes : j <= i
  IN IF opens = {} \/ closes = {} \/ last < first
     THEN [ok |-> TRUE, value |-> PayloadS]
     ELSE LET jsonStr == SubSeq(cleanedContent, first, last)
          IN IF JsonDecodes(jsonStr)
             THEN [ok |-> TRUE, value |-> JsonDecode(jsonStr)]
             ELSE [ok |-> TRUE, value |-> PayloadS]

parseJSONResponse(content) ==
  LET cleanedContent == SelectSeq(content, LAMBDA t : t \notin {FenceJson, Fence})
      opens == {i \in DOMAIN cleanedContent : cleanedContent[i] = "{"}
      closes == {i \in DOMAIN cleanedContent : cleanedContent[i] = "}"}
      first == CHOOSE i \in opens : \A j \in opens : i <= j
      last == CHOOSE i \in closes : \A j \in closes : j <= i
  IN IF opens = {} \/ closes = {} \/ last < first
     THEN [ok |-> FALSE,
           error |-> ParseError(<<"No", "JSON", "found", "in", "response">>)]
     ELSE LET jsonStr == SubSeq(cleanedContent, first, last)
          IN IF JsonDecodes(jsonStr)
             THEN [ok |-> TRUE, value |-> JsonDecode(jsonStr)]
             ELSE [ok |-> FALSE,
                   error |-> ParseError(<<"Unexpected", "token">>)]

\* Numbers are floating-point numbers: the result of every operation is
\* rounded to the nearest number with a significand of MantissaBits bits,
\* ties to even (the numbers of the code have 53).  Only numbers >= 0 occur.
MantissaBits == 8

RECURSIVE Pow2(_)
Pow2(n) == IF n = 0 THEN 1 ELSE 2 * Pow2(n - 1)

RECURSIVE Gcd(_, _)
Gcd(a, b) == IF b = 0 THEN a ELSE Gcd(b, a % b)

Reduce(x) ==
  IF x.den = 0 THEN x
  ELSE IF x.num = 0 THEN Num(0, 1)
  ELSE LET g == Gcd(x.num, x.den) IN Num(x.num \div g, x.den \div g)

\* n/d * up/down is the number to round; n/d is brought into the range
\* 2^(MantissaBits-1) .. 2^MantissaBits and rounded to an integer.
RECURSIVE RoundScaled(_, _, _, _)
RoundScaled(n, d, up, down) ==
  IF n >= d * Pow2(MantissaBits) THEN RoundScaled(n, 2 * d, 2 * up, down)
  ELSE IF n < d * Pow2(MantissaBits - 1) THEN RoundScaled(2 * n, d, up, 2 * down)
  ELSE LET q == n \div d
           r == n - q * d
           m == IF 2 * r > d \/ (2 * r = d /\ q % 2 = 1) THEN q + 1 ELSE q
       IN Reduce(Num(m * up, down))

Fl(x) ==
  IF x.den = 0 \/ x.num = 0 THEN Reduce(x)
  ELSE LET y == Reduce(x) IN RoundScaled(y.num, y.den, 1, 1)

FlAdd(x, y) == Fl(Num(x.num * y.den + y.num * x.den, x.den * y.den))
FlMul(x, y) == Fl(Num(x.num * y.num, x.den * y.den))
\* x / y: 0 / 0 is NaN, x / 0 is Infinity; both have den 0.
FlDiv(x, y) ==
  IF y.num = 0 THEN Num(IF x.num = 0 THEN 0 ELSE 1, 0)
  ELSE Fl(Num(x.num * y.den, x.den * y.num))

\* A member as an operand of * and +: null counts 0; undefined makes the
\* result NaN, which the flags of Totals record.  A score is a number of
\* units, a weight a number of hundredths.
ToNumber(v, unit) == IF v.type = "number" THEN Fl(Num(v.value, unit)) ELSE Num(0, 1)

\* calculateWeightedScore(scores): scores is Null (undefined) or <<map>>.
\* The loop takes the criteria in the order of the map (lines 696-700).
RECURSIVE Totals(_, _, _)
Totals(scores, i, acc) ==
  IF i > Len(Criteria) THEN acc
  ELSE IF ~IsSet(scores[Criteria[i]]) THEN Totals(scores, i + 1, acc)
  ELSE LET item == Val(scores[Criteria[i]])
       IN Totals(scores, i + 1,
                 [totalScore |-> FlAdd(acc.totalScore,
                                       FlMul(ToNumber(item.score, 1),
                                             ToNumber(item.weight, 100))),
                  totalWeight |-> FlAdd(acc.totalWeight,
                                        ToNumber(item.weight, 100)),
                  scoreNaN |-> \/ acc.scoreNaN
                               \/ item.score.type = "undefined"
                               \/ item.weight.type = "undefined",
                  weightNaN |-> acc.weightNaN \/ item.weight.type = "undefined"])

calculateWeightedScore(scores) ==
  IF ~IsSet(scores) THEN Num(0, 0)
  ELSE LET t == Totals(Val(scores), 1,
                       [totalScore |-> Num(0, 1), totalWeight |-> Num(0, 1),
                        scoreNaN |-> FALSE, weightNaN |-> FALSE])
       IN IF t.scoreNaN \/ t.weightNaN THEN Num(0, 0)
          ELSE FlDiv(t.totalScore, t.totalWeight)

\* What evaluateCV / evaluateProject do with the response of their
\* completion call (lines 478-490, 559-571).
\* The weighted score of every scores member an answer can hold.
WeightedScores ==
  {[scores |-> s, score |-> calculateWeightedScore(s)] :
     s \in {Null} \cup {Some(m) : m \in ScoreMaps}}

WeightedScoreOf(scores) ==
  (CHOOSE r \in WeightedScores : r.scores = scores).score

EvaluateResponse(response) ==
  LET result == parseJSONResponse(response.content)
  IN IF ~result.ok THEN [ok |-> FALSE, error |-> result.error]
     ELSE [ok |-> TRUE,
           value |-> [score |-> WeightedScoreOf(result.value.scores),
                      feedback |-> result.value.overall_feedback,
                      scores |-> result.value.scores,
                      provider |-> response.provider,
                      model |-> response.model,
                      tokensUsed |-> response.tokensUsed]]

\* generateOverallSummary, after its completion call (lines 616-621).
SummaryOf(response) ==
  [summary |-> response.content,
   provider |-> response.provider,
   model |-> response.model,
   tokensUsed |-> response.tokensUsed]

\* The user prompt of generateOverallSummary reads scores.technical_skills
\* of the CV evaluation and scores.code_quality of the project evaluation:
\* a TypeError when scores is undefined (lines 596-608).
TypeErrorReading(prop) ==
  [status |-> 0,
   message |-> <<"Cannot", "read", "properties", "of", "undefined",
                 "(reading", prop>>]

SummaryPromptError(cvEvaluation, projectEvaluation) ==
  IF ~IsSet(cvEvaluation.scores) THEN Some(TypeErrorReading("technical_skills"))
  ELSE IF ~IsSet(projectEvaluation.scores)
       THEN Some(TypeErrorReading("code_quality"))
       ELSE Null

\* ------------------------------------------------- RagieService: retrieval

\* this.minScore, in hundredths
minScore == 10

RetrievalQueries ==
  {"jobRequirements", "cvCriteria", "projectRequirements", "projectCriteria"}

\* What retrievals.retrieve can do: throw, or return scored chunks.
StoreThrows == [threw |-> TRUE, scoredChunks |-> <<>>]
StoreReturns(scoredChunks) == [threw |-> FALSE, scoredChunks |-> scoredChunks]
StoreAnswers ==
  { StoreReturns(<<>>),
    StoreReturns(<< [text |-> "B", score |-> 5] >>),
    StoreReturns(<< [text |-> "A", score |-> 30], [text |-> "B", score |-> 5] >>) }
StoreResponses == {StoreThrows} \cup StoreAnswers

emptyResult ==
  [context |-> <<>>, chunks |-> <<>>, relevanceScore |-> Num(0, 1),
   retrievalTimeMs |-> 0]

RECURSIVE JoinTexts(_)
JoinTexts(chunks) ==
  IF chunks = <<>> THEN <<>>
  ELSE IF Len(chunks) = 1 THEN <<chunks[1].text>>
  ELSE <<chunks[1].text, "\n\n">> \o JoinTexts(Tail(chunks))

RECURSIVE SumScores(_)
SumScores(chunks) ==
  IF chunks = <<>> THEN 0 ELSE chunks[1].score + SumScores(Tail(chunks))

\* What the store does to the four retrievals of one attempt: when it is
\* down every request throws; else the two requirements queries get one
\* answer and the two criteria queries get one answer.
StoreBehaviours(down) ==
  IF down THEN {[q \in RetrievalQueries |-> StoreThrows]}
  ELSE {[q \in RetrievalQueries |->
           IF q \in {"jobRequirements", "projectRequirements"} THEN req ELSE crit] :
        req \in StoreAnswers, crit \in StoreAnswers}

\* A retrieval whose catch block hands on the failure text as context.
RetrieveFailureAsContext(available, resp, elapsed) ==
  IF ~available THEN emptyResult
  ELSE IF resp.threw
       THEN [context |-> <<"retrieval", "failed">>, chunks |-> <<>>,
             relevanceScore |-> Num(0, 1), retrievalTimeMs |-> elapsed]
       ELSE LET relevantChunks == SelectSeq(resp.scoredChunks,
                                            LAMBDA chunk : chunk.score >= minScore)
            IN IF Len(relevantChunks) = 0 THEN emptyResult
               ELSE [context |-> JoinTexts(relevantChunks),
                     chunks |-> relevantChunks,
                     relevanceScore |-> Num(SumScores(relevantChunks),
                                            Len(relevantChunks)),
                     retrievalTimeMs |-> elapsed]

\* A retrieval that asks the store also when no client was constructed.
RetrieveUnguarded(available, resp, elapsed) ==
  IF resp.threw THEN emptyResult
  ELSE LET relevantChunks == SelectSeq(resp.scoredChunks,
                                       LAMBDA chunk : chunk.score >= minScore)
       IN IF Len(relevantChunks) = 0 THEN emptyResult
          ELSE [context |-> JoinTexts(relevantChunks),
                chunks |-> relevantChunks,
                relevanceScore |-> Num(SumScores(relevantChunks),
                                       Len(relevantChunks)),
                retrievalTimeMs |-> elapsed]

\* A retrieval whose relevance score is the mean over all returned passages.
RetrieveMeanOfAll(available, resp, elapsed) ==
  IF ~available \/ resp.threw THEN emptyResult
  ELSE LET relevantChunks == SelectSeq(resp.scoredChunks,
                                       LAMBDA chunk : chunk.score >= minScore)
       IN IF Len(relevantChunks) = 0 THEN emptyResult
          ELSE [context |-> JoinTexts(relevantChunks),
                chunks |-> relevantChunks,
                relevanceScore |-> Num(SumScores(resp.scoredChunks),
                                       Len(resp.scoredChunks)),
                retrievalTimeMs |-> elapsed]

\* The request to the store (lines 57-63) is issued only past the
\* isAvailable() guard of lines 49-52.
StoreCalled(available) == available

\* retrieveJobRequirements and its three siblings share one body
\* (lines 45-97): available is isAvailable(), resp what the store did,
\* elapsed Date.now() - startTime.
Retrieve(available, resp, elapsed) ==
  IF ~available \/ resp.threw THEN emptyResult
  ELSE LET relevantChunks == SelectSeq(resp.scoredChunks, LAMBDA chunk : chunk.score >= minScore)
       IN IF Len(relevantChunks) = 0 THEN emptyResult
          ELSE [context |-> JoinTexts(relevantChunks),
                chunks |-> relevantChunks,
                relevanceScore |-> Num(SumScores(relevantChunks), Len(relevantChunks)),
                retrievalTimeMs |-> elapsed]

\* The rubric part of the system prompt of evaluateCV / evaluateProject
\* (lines 433-449, 512-529): the retrieved requirements when non-empty, and
\* the retrieved criteria when non-empty, else the embedded default rubric.
DefaultRubric == "default criteria"
GroundTruth == "retrieved criteria"

\* The sections of the system prompt, in order: the role, the retrieved
\* requirements, the rubric, the required format.
RoleSection == "role"
RequirementsSection == "retrieved requirements"
FormatSection == "required format"

\* A prompt built without the else branch of lines 443-449.
BuildPromptNoFallback(requirements, criteria) ==
  [requirements |-> IF requirements.context # <<>>
                    THEN Some(requirements.context) ELSE Null,
   rubric |-> IF criteria.context # <<>> THEN GroundTruth ELSE DefaultRubric,
   criteria |-> IF criteria.context # <<>> THEN Some(criteria.context) ELSE Null,
   sections |-> <<RoleSection>>
                \o (IF requirements.context # <<>>
                    THEN <<RequirementsSection>> ELSE <<>>)
                \o (IF criteria.context # <<>> THEN <<GroundTruth>> ELSE <<>>)
                \o <<FormatSection>>]

BuildPrompt(requirements, criteria) ==
  [requirements |-> IF requirements.context # <<>>
                    THEN Some(requirements.context) ELSE Null,
   rubric |-> IF criteria.context # <<>> THEN GroundTruth ELSE DefaultRubric,
   criteria |-> IF criteria.context # <<>> THEN Some(criteria.context) ELSE Null,
   sections |-> <<RoleSection>>
                \o (IF requirements.context # <<>>
                    THEN <<RequirementsSection>> ELSE <<>>)
                \o (IF criteria.context # <<>>
                    THEN <<GroundTruth>> ELSE <<DefaultRubric>>)
                \o <<FormatSection>>]

\* ------------------------------------------ generateCompletion, by steps

\* One generateCompletion call and the task awaiting it.  pc is the task's
\* position: "calling" (awaiting callProvider), "sleeping" (awaiting the
\* backoff sleep), "resolved", "rejected"; gc says how generateCompletion
\* itself ended.  log lists what the call did, in order.
IdleCall ==
  [pc |-> "idle", gc |-> "none", order |-> <<>>, idx |-> 0, attempt |-> 0,
   lastError |-> Null, result |-> Null, log |-> <<>>]

\* An entry of the log: "skip" (rate limited, passed over), "call" (attempt
\* n issued), "ok" (attempt n answered), "fail" (attempt n threw error),
\* "sleep" (backoff of n ms).
Ev(provider, event, n) ==
  [provider |-> provider, event |-> event, n |-> n, error |-> Null]
Failure(provider, n, error) ==
  [provider |-> provider, event |-> "fail", n |-> n, error |-> Some(error)]

SkipEvents(skipped) == [i \in DOMAIN skipped |-> Ev(skipped[i], "skip", 0)]

\* Lines 98-115 and 151-155: from position i of the try-order, go to the
\* first provider that is not rate limited and call it (attempt 1), or
\* throw the aggregate error when the order is used up.
EnterLoop(has, call, i, rl, t) ==
  LET s == SkipLimited(has, call.order, i, rl, t)
      logged == call.log \o SkipEvents(s.skipped)
  IN IF s.idx > Len(call.order)
     THEN [call |-> [call EXCEPT !.pc = "rejected", !.gc = "threw",
                                 !.idx = s.idx,
                                 !.result = AllProvidersFailed(call.lastError),
                                 !.log = logged],
           rl |-> s.rl]
     ELSE [call |-> [call EXCEPT !.pc = "calling", !.gc = "running",
                                 !.idx = s.idx, !.attempt = 1,
                                 !.log = logged \o <<Ev(call.order[s.idx], "call", 1)>>],
           rl |-> s.rl]

\* Lines 88-115: the call up to its first await.
BeginCompletion(has, rl, t) ==
  EnterLoop(has, [IdleCall EXCEPT !.order = getSortedProviders(has, Null)],
            1, rl, t)

\* The success path recording the usage against the first provider of the
\* try-order.
CompletionReturnsChargesFirst(call, rl, t, completion) ==
  LET providerName == call.order[call.idx]
  IN [call |-> [call EXCEPT !.pc = "resolved", !.gc = "returned",
                            !.result = [content |-> completion.content,
                                        provider |-> providerName,
                                        model |-> ProviderConfig(providerName).model,
                                        tokensUsed |-> completion.total],
                            !.log = @ \o <<Ev(providerName, "ok", call.attempt)>>],
      rl |-> trackRequest(rl, call.order[1], t)]

\* Lines 124-128, and the LLMResponse callGemini / callOpenAICompatible build.
CompletionReturns(call, rl, t, completion) ==
  LET providerName == call.order[call.idx]
  IN [call |-> [call EXCEPT !.pc = "resolved", !.gc = "returned",
                            !.result = [content |-> completion.content,
                                        provider |-> providerName,
                                        model |-> ProviderConfig(providerName).model,
                                        tokensUsed |-> completion.total],
                            !.log = @ \o <<Ev(providerName, "ok", call.attempt)>>],
      rl |-> trackRequest(rl, providerName, t)]

\* The catch of one attempt without the retry loop: any failure moves on to
\* the next provider.
AttemptFailsNoRetry(has, call, rl, t, error) ==
  LET providerName == call.order[call.idx]
      failed == [call EXCEPT !.lastError = Some(error),
                             !.log = @ \o <<Failure(providerName, call.attempt, error)>>]
  IN EnterLoop(has, failed, call.idx + 1,
               IF isRateLimitError(error) THEN markRateLimited(rl, providerName, t)
               ELSE rl,
               t)

\* The catch of one attempt retrying whatever the error and the attempt.
AttemptFailsRetriesEver(has, call, rl, t, error) ==
  LET providerName == call.order[call.idx]
      failed == [call EXCEPT !.lastError = Some(error),
                             !.log = @ \o <<Failure(providerName, call.attempt, error)>>]
  IN [call |-> [failed EXCEPT !.pc = "sleeping",
                              !.log = @ \o <<Ev(providerName, "sleep",
                                                BackoffMs(call.attempt))>>],
      rl |-> rl]

\* Lines 129-148: the catch of one attempt.
AttemptFails(has, call, rl, t, error) ==
  LET providerName == call.order[call.idx]
      failed == [call EXCEPT !.lastError = Some(error),
                             !.log = @ \o <<Failure(providerName, call.attempt, error)>>]
  IN IF isRateLimitError(error)
     THEN EnterLoop(has, failed, call.idx + 1,
                    markRateLimited(rl, providerName, t), t)
     ELSE IF call.attempt < llmConfig.retry.maxAttempts
          THEN [call |-> [failed EXCEPT !.pc = "sleeping",
                                        !.log = @ \o <<Ev(providerName, "sleep",
                                                          BackoffMs(call.attempt))>>],
                rl |-> rl]
          ELSE EnterLoop(has, failed, call.idx + 1, rl, t)

\* Line 109: the next attempt on the same provider, after the sleep.
NextAttempt(call) ==
  [call EXCEPT !.pc = "calling", !.attempt = @ + 1,
               !.log = @ \o <<Ev(call.order[call.idx], "call", call.attempt + 1)>>]

\* The task's own code after its generateCompletion call has returned.
TaskContinues(task, call) ==
  IF call.pc # "resolved" THEN call
  ELSE IF task = "synthesis"
       THEN [call EXCEPT !.result = SummaryOf(call.result)]
       ELSE LET r == EvaluateResponse(call.result)
            IN IF r.ok THEN [call EXCEPT !.result = r.value]
               ELSE [call EXCEPT !.pc = "rejected", !.result = r.error]

\* ------------------------------------------------------------------ state

JobId == "job1"
CvFileId == "cv1"
ProjectFileId == "report1"
FileIds == {CvFileId, ProjectFileId}
Tasks == {"cv", "project", "synthesis"}
CallIds == (1..QueueAttempts) \X Tasks

VARIABLES
  providers,       \* LLMService.providers: the initialised providers
  rateLimiters,    \* LLMService.rateLimiters: name -> Null or <<{count, resetAt}>>
  ragieAvailable,  \* RagieService.isAvailable()
  now,             \* Date.now()
  uploadedFile,    \* ids of the rows of table uploadedFile
  evaluationJob,   \* table evaluationJob: job id -> row
  startResponse,   \* what startEvaluation answered: Null, or <<response>>
  bull,            \* the queue's task: [state, attemptsMade]
  h,               \* the running handleEvaluation
  calls,           \* the completion calls, by (queue attempt, task)
  statusLog,       \* the status writes that succeeded, in order
  lastExit,        \* how the handleEvaluation that ended last ended
  answered,        \* the HTTP statuses the providers have answered with
  probe,           \* a direct call of one helper: [fn, input, output]
  storeDown,       \* the retrieval store rejects every request of this run
  adversity,       \* the kind of adverse event this run suffers
  faults           \* adverse events suffered so far

vars ==
  <<providers, rateLimiters, ragieAvailable, now, uploadedFile, evaluationJob,
    startResponse, bull, h, calls, statusLog, lastExit, answered, probe,
    storeDown, adversity, faults>>

Undefined == <<"undefined", "undefined">>

\* prisma.evaluationJob.create (lines 52-59): the columns not given take
\* their defaults.
NewJob(dto, t) ==
  [status |-> "QUEUED", jobTitle |-> dto.jobTitle, cvFileId |-> dto.cvFileId,
   projectReportFileId |-> dto.projectReportFileId,
   createdAt |-> Some(t), startedAt |-> Null, completedAt |-> Null,
   attempts |-> 0, error |-> Null,
   cvMatchRate |-> Null, cvFeedback |-> Null, cvScoresJson |-> Null,
   projectScore |-> Null, projectFeedback |-> Null, projectScoresJson |-> Null,
   overallSummary |-> Null, llmProvider |-> Null, llmModel |-> Null,
   tokensUsed |-> Null, processingTimeMs |-> Null]

ResultFields ==
  {"cvMatchRate", "cvFeedback", "cvScoresJson", "projectScore",
   "projectFeedback", "projectScoresJson", "overallSummary", "llmProvider",
   "llmModel", "tokensUsed", "processingTimeMs"}

\* prisma update: the columns of data are assigned.
Assign(row, data) ==
  [f \in DOMAIN row |-> IF f \in DOMAIN data THEN data[f] ELSE row[f]]

\* EvaluationService.updateJobStatus(jobId, status, data) on the job's row.
updateJobStatus(row, status, data, t) ==
  LET updateData ==
        IF status = "PROCESSING"
        THEN [f \in {"status", "startedAt"} |->
                IF f = "status" THEN status ELSE Some(t)]
        ELSE IF status \in {"COMPLETED", "FAILED"}
             THEN [f \in {"status", "completedAt"} |->
                     IF f = "status" THEN status ELSE Some(t)]
             ELSE [f \in {"status"} |-> status]
      merged == [f \in DOMAIN updateData \cup DOMAIN data |->
                   IF f \in DOMAIN data THEN data[f] ELSE updateData[f]]
  IN Assign(row, merged)

NoData == [f \in {} |-> Null]

\* EvaluationProcessor.incrementAttempts
incrementAttempts(row) == [row EXCEPT !.attempts = @ + 1]

OrUndefined(x) == IF IsSet(x) THEN x ELSE Undefined

\* A completion that reports the tokens of the synthesis alone.
CompletedDataOfSummary(cvEvaluation, projectEvaluation, overallSummary, processingTimeMs) ==
  LET given ==
        [f \in ResultFields |->
           CASE f = "cvMatchRate" -> Some(cvEvaluation.score)
             [] f = "cvFeedback" -> OrUndefined(cvEvaluation.feedback)
             [] f = "cvScoresJson" -> OrUndefined(cvEvaluation.scores)
             [] f = "projectScore" -> Some(projectEvaluation.score)
             [] f = "projectFeedback" -> OrUndefined(projectEvaluation.feedback)
             [] f = "projectScoresJson" -> OrUndefined(projectEvaluation.scores)
             [] f = "overallSummary" -> Some(overallSummary.summary)
             [] f = "llmProvider" -> Some(overallSummary.provider)
             [] f = "llmModel" -> Some(overallSummary.model)
             [] f = "tokensUsed" -> Some(overallSummary.tokensUsed)
             [] f = "processingTimeMs" -> Some(processingTimeMs)]
  IN [f \in {g \in ResultFields : given[g] # Undefined} |-> given[f]]

\* The data of the COMPLETED write (lines 383-395); a member that is
\* undefined is no part of the update.
CompletedData(cvEvaluation, projectEvaluation, overallSummary, processingTimeMs) ==
  LET given ==
        [f \in ResultFields |->
           CASE f = "cvMatchRate" -> Some(cvEvaluation.score)
             [] f = "cvFeedback" -> OrUndefined(cvEvaluation.feedback)
             [] f = "cvScoresJson" -> OrUndefined(cvEvaluation.scores)
             [] f = "projectScore" -> Some(projectEvaluation.score)
             [] f = "projectFeedback" -> OrUndefined(projectEvaluation.feedback)
             [] f = "projectScoresJson" -> OrUndefined(projectEvaluation.scores)
             [] f = "overallSummary" -> Some(overallSummary.summary)
             [] f = "llmProvider" -> Some(overallSummary.provider)
             [] f = "llmModel" -> Some(overallSummary.model)
             [] f = "tokensUsed" -> Some(cvEvaluation.tokensUsed
                                           + projectEvaluation.tokensUsed
                                           + overallSummary.tokensUsed)
             [] f = "processingTimeMs" -> Some(processingTimeMs)]
  IN [f \in {g \in ResultFields : given[g] # Undefined} |-> given[f]]

\* The data of the FAILED write (lines 404-406).
FailedData(error) == [f \in {"error"} |-> Some(error.message)]

DbError(request) ==
  [status |-> 0, message |-> <<"Database", "request", "failed:", request>>]
FileNotFound(id) == [status |-> 0, message |-> <<"File", "not", "found:", id>>]

\* The adverse events of the environment: a rejected database request, a
\* deleted upload, a failing provider call, a scoring completion that is
\* not the JSON asked for.  A run suffers events of one kind.
Adversities == {"database", "files", "provider", "content"}

Adverse(kind) == adversity = kind /\ faults < MaxFaults

\* No helper is called directly.
NoProbe == [fn |-> "none", input |-> Null, output |-> Null]

\* The handler between invocations.
IdleHandler ==
  [pc |-> "none", caught |-> Null, startTime |-> 0, retrievalStart |-> 0,
   processingTimeMs |-> 0, prompts |-> Null, setProcessing |-> FALSE]

\* How an invocation of handleEvaluation ended: by "return" or by "throw" of
\* error; wrote says that its last status write was stored, caught is what
\* its catch block received, setProcessing that its PROCESSING write was
\* stored, prompts the scoring prompts it built.
Exit(hh, kind, error, wrote) ==
  [kind |-> kind, error |-> error, wrote |-> wrote, caught |-> hh.caught,
   setProcessing |-> hh.setProcessing, prompts |-> hh.prompts]

ServiceUp(kinds) ==
  /\ providers \in SUBSET ProviderNames
  /\ rateLimiters = [p \in ProviderNames |-> Null]
  /\ ragieAvailable \in BOOLEAN
  /\ now = 0
  /\ uploadedFile \in SUBSET FileIds
  /\ evaluationJob = <<>>
  /\ startResponse = Null
  /\ bull = [state |-> "none", attemptsMade |-> 0]
  /\ h = IdleHandler
  /\ calls = [c \in CallIds |-> IdleCall]
  /\ statusLog = <<>>
  /\ lastExit = Null
  /\ answered = {}
  /\ probe = NoProbe
  /\ storeDown \in BOOLEAN
  /\ adversity \in kinds
  /\ faults = 0
  \* What the retrievals return does not reach the providers: the runs in
  \* which providers fail are those of a service without retrieval client.
  /\ adversity = "provider" => ~ragieAvailable /\ ~storeDown

Init == ServiceUp(Adversities)

Job == evaluationJob[JobId]
JobExists == JobId \in DOMAIN evaluationJob
CurrentAttempt == bull.attemptsMade + 1

\* EvaluationService.roundToTwo(num): Math.round(num * 100) / 100, on a
\* nullable fraction; Math.round rounds halves up, NaN stays NaN.
roundToTwo(num) ==
  IF ~IsSet(num) THEN Null
  ELSE IF IsNaN(Val(num)) THEN num
  ELSE Some(Num((200 * Val(num).num + Val(num).den) \div (2 * Val(num).den), 100))

\* getJobResult that reports the error column whenever it is set.
getJobResultErrorWhenSet(jobId) ==
  IF jobId \notin DOMAIN evaluationJob THEN Null
  ELSE LET job == evaluationJob[jobId]
           result == [id |-> jobId, status |-> job.status,
                      job_title |-> job.jobTitle, created_at |-> job.createdAt,
                      started_at |-> job.startedAt,
                      completed_at |-> job.completedAt,
                      attempts |-> job.attempts]
       IN IF IsSet(job.error)
          THEN Some(result @@ [error |-> Val(job.error)])
          ELSE Some(result)

\* EvaluationService.getJobResult(jobId): null when there is no such job,
\* else the response, with the members error, result and processing_time_ms
\* present only where the code assigns them.
getJobResult(jobId) ==
  IF jobId \notin DOMAIN evaluationJob THEN Null
  ELSE LET job == evaluationJob[jobId]
           result == [id |-> jobId, status |-> job.status,
                      job_title |-> job.jobTitle, created_at |-> job.createdAt,
                      started_at |-> job.startedAt,
                      completed_at |-> job.completedAt,
                      attempts |-> job.attempts]
           withError ==
             IF job.status = "FAILED" /\ IsSet(job.error) /\ Val(job.error) # <<>>
             THEN result @@ [error |-> Val(job.error)]
             ELSE result
       IN IF job.status = "COMPLETED"
          THEN Some(withError @@
                    [result |-> [cv_match_rate |-> roundToTwo(job.cvMatchRate),
                                 cv_feedback |-> job.cvFeedback,
                                 project_score |-> roundToTwo(job.projectScore),
                                 project_feedback |-> job.projectFeedback,
                                 overall_summary |-> job.overallSummary],
                     processing_time_ms |-> job.processingTimeMs])
          ELSE Some(withError)

\* ----------------------------------------------------------------- actions

\* What evaluationQueue.add throws when the queue's store is unreachable.
QueueError == <<"connect", "ECONNREFUSED">>

\* EvaluationService.startEvaluation
\* startEvaluation without the two lookups: the job is created and enqueued
\* whatever uploadedFile holds.
startEvaluationUnchecked ==
  /\ startResponse = Null
  /\ LET dto == [jobTitle |-> "Backend Developer", cvFileId |-> CvFileId,
                 projectReportFileId |-> ProjectFileId]
     IN /\ evaluationJob' = (JobId :> NewJob(dto, now))
        /\ bull' = [state |-> "waiting", attemptsMade |-> 0]
        /\ startResponse' = Some([id |-> JobId, status |-> "QUEUED"])
  /\ UNCHANGED <<probe, answered, storeDown, adversity,
                   providers, rateLimiters, ragieAvailable, now, uploadedFile, h,
                 calls, statusLog, lastExit, faults>>

startEvaluation ==
  /\ startResponse = Null
  /\ LET dto == [jobTitle |-> "Backend Developer", cvFileId |-> CvFileId,
                 projectReportFileId |-> ProjectFileId]
     IN IF dto.cvFileId \notin uploadedFile
        THEN /\ startResponse' = Some([error |-> <<"CV", "file", "not", "found:", dto.cvFileId>>])
             /\ UNCHANGED <<evaluationJob, bull, faults>>
        ELSE IF dto.projectReportFileId \notin uploadedFile
        THEN /\ startResponse' = Some([error |-> <<"Project", "report", "file", "not",
                                                   "found:", dto.projectReportFileId>>])
             /\ UNCHANGED <<evaluationJob, bull, faults>>
        ELSE /\ evaluationJob' = (JobId :> NewJob(dto, now))
             /\ \/ /\ bull' = [state |-> "waiting", attemptsMade |-> 0]
                   /\ startResponse' = Some([id |-> JobId, status |-> "QUEUED"])
                   /\ UNCHANGED faults
                \/ /\ Adverse("queue")
                   /\ faults' = faults + 1
                   /\ startResponse' = Some([error |-> QueueError])
                   /\ UNCHANGED bull
  /\ UNCHANGED <<probe, answered, storeDown, adversity,
                   providers, rateLimiters, ragieAvailable, now, uploadedFile, h,
                 calls, statusLog, lastExit>>

\* UploadService.deleteFile, by a collaborator.  The files are read by the
\* handler's lookups only, so a deletion during an attempt acts like one just
\* before it or just after it: it is taken while the task waits in the queue.
deleteFile(id) ==
  /\ id \in uploadedFile
  /\ bull.state = "waiting"
  /\ Adverse("files")
  /\ faults' = faults + 1
  /\ uploadedFile' = uploadedFile \ {id}
  /\ UNCHANGED <<probe, answered, storeDown, adversity,
                   providers, rateLimiters, ragieAvailable, now, evaluationJob,
                 startResponse, bull, h, calls, statusLog, lastExit>>

\* Time passes.
Tick ==
  /\ now + TickMs <= MaxNow
  /\ now' = now + TickMs
  /\ UNCHANGED <<probe, answered, storeDown, adversity,
                   providers, rateLimiters, ragieAvailable, uploadedFile,
                 evaluationJob, startResponse, bull, h, calls, statusLog,
                 lastExit, faults>>

\* catch (error) of handleEvaluation: the FAILED write is issued (line 404).
Catch(hh, error) == [hh EXCEPT !.pc = "w_failed", !.caught = Some(error)]

\* The queue takes an exception of the handler: the attempt is spent, and the
\* task is retried while attempts are left (defaultJobOptions.attempts).
BullFailed(b) ==
  [state |-> IF b.attemptsMade + 1 < QueueAttempts THEN "waiting" ELSE "failed",
   attemptsMade |-> b.attemptsMade + 1]

\* The queue invokes handleEvaluation, which runs to its first await: the
\* PROCESSING write (lines 320-328).
handleEvaluation ==
  /\ bull.state = "waiting"
  /\ bull' = [bull EXCEPT !.state = "active"]
  /\ h' = [IdleHandler EXCEPT !.pc = "w_processing", !.startTime = now]
  /\ lastExit' = Null
  /\ UNCHANGED <<probe, answered, storeDown, adversity,
                   providers, rateLimiters, ragieAvailable, now, uploadedFile,
                 evaluationJob, startResponse, calls, statusLog, faults>>

\* The PROCESSING write settles (line 328); incrementAttempts is issued.
ProcessingWritten ==
  /\ h.pc = "w_processing"
  /\ \/ /\ evaluationJob' = [evaluationJob EXCEPT
                               ![JobId] = updateJobStatus(@, "PROCESSING", NoData, now)]
        /\ statusLog' = Append(statusLog, "PROCESSING")
        /\ h' = [h EXCEPT !.pc = "w_increment", !.setProcessing = TRUE]
        /\ UNCHANGED faults
     \/ /\ Adverse("database")
        /\ faults' = faults + 1
        /\ h' = Catch(h, DbError("PROCESSING"))
        /\ UNCHANGED <<evaluationJob, statusLog>>
  /\ UNCHANGED <<probe, answered, storeDown, adversity,
                   providers, rateLimiters, ragieAvailable, now, uploadedFile,
                 startResponse, bull, calls, lastExit>>

\* incrementAttempts settles (line 329); the two file lookups are issued.
AttemptsIncremented ==
  /\ h.pc = "w_increment"
  /\ \/ /\ evaluationJob' = [evaluationJob EXCEPT ![JobId] = incrementAttempts(@)]
        /\ h' = [h EXCEPT !.pc = "w_files"]
        /\ UNCHANGED faults
     \/ /\ Adverse("database")
        /\ faults' = faults + 1
        /\ h' = Catch(h, DbError("attempts"))
        /\ UNCHANGED evaluationJob
  /\ UNCHANGED <<probe, answered, storeDown, adversity,
                   providers, rateLimiters, ragieAvailable, now, uploadedFile,
                 startResponse, bull, calls, statusLog, lastExit>>

\* The retrievals issued without awaiting the file texts.
FilesLoadedUnchecked ==
  /\ h.pc = "w_files"
  /\ h' = [h EXCEPT !.pc = "w_retrieval", !.retrievalStart = now]
  /\ UNCHANGED <<probe, answered, storeDown, adversity,
                   providers, rateLimiters, ragieAvailable, now, uploadedFile,
                 evaluationJob, startResponse, bull, calls, statusLog, lastExit,
                 faults>>

\* Promise.all of the two getFileText calls settles (lines 332-335); the
\* four retrievals are issued.
FilesLoaded ==
  /\ h.pc = "w_files"
  /\ LET missing == {Job.cvFileId, Job.projectReportFileId} \ uploadedFile
     IN IF missing = {}
        THEN h' = [h EXCEPT !.pc = "w_retrieval", !.retrievalStart = now]
        ELSE \E id \in missing : h' = Catch(h, FileNotFound(id))
  /\ UNCHANGED <<probe, answered, storeDown, adversity,
                   providers, rateLimiters, ragieAvailable, now, uploadedFile,
                 evaluationJob, startResponse, bull, calls, statusLog, lastExit,
                 faults>>

\* generateOverallSummary up to its first await (lines 587-614), entered
\* when both scoring tasks of attempt a have resolved.
StartSynthesis(cs, hh, rl, a, t) ==
  LET err == SummaryPromptError(cs[<<a, "cv">>].result, cs[<<a, "project">>].result)
      g == BeginCompletion(providers, rl, t)
  IN IF IsSet(err) THEN [calls |-> cs, h |-> Catch(hh, Val(err)), rl |-> rl]
     ELSE [calls |-> [cs EXCEPT ![<<a, "synthesis">>] = g.call],
           h |-> IF g.call.pc = "rejected" THEN Catch(hh, g.call.result)
                 ELSE [hh EXCEPT !.pc = "synthesis"],
           rl |-> g.rl]

\* handleEvaluation resumes when a task it awaits has settled: the first
\* rejection of Promise.all goes to the catch (lines 364-367, 400), the
\* second scoring result starts the synthesis (line 373), the summary issues
\* the COMPLETED write (lines 380-383).  A task of an attempt that has
\* already gone to its catch resumes nothing, and its result is dropped.
TaskSettled(cs, hh, rl, c, t) ==
  LET a == c[1]
      task == c[2]
      awaited == /\ a = CurrentAttempt
                 /\ \/ task \in {"cv", "project"} /\ hh.pc = "scoring"
                    \/ task = "synthesis" /\ hh.pc = "synthesis"
  IN IF cs[c].pc \notin {"resolved", "rejected"}
     THEN [calls |-> cs, h |-> hh, rl |-> rl]
     ELSE IF ~awaited
     THEN [calls |-> [cs EXCEPT ![c] = IdleCall], h |-> hh, rl |-> rl]
     ELSE IF cs[c].pc = "rejected"
     THEN [calls |-> cs, h |-> Catch(hh, cs[c].result), rl |-> rl]
     ELSE IF task = "synthesis"
     THEN [calls |-> cs,
           h |-> [hh EXCEPT !.pc = "w_completed",
                            !.processingTimeMs = t - hh.startTime],
           rl |-> rl]
     ELSE IF cs[<<a, "cv">>].pc = "resolved" /\ cs[<<a, "project">>].pc = "resolved"
     THEN StartSynthesis(cs, hh, rl, a, t)
     ELSE [calls |-> cs, h |-> hh, rl |-> rl]

\* A handler that awaits the CV scoring before it issues the project
\* scoring: only the CV call is begun when the retrievals have settled.
RetrievalsSettledInTurn ==
  /\ h.pc = "w_retrieval"
  /\ \E store \in StoreBehaviours(storeDown) :
       LET got == [q \in RetrievalQueries |-> Retrieve(ragieAvailable, store[q],
                                                   now - h.retrievalStart)]
           prompts == [cv |-> BuildPrompt(got["jobRequirements"], got["cvCriteria"]),
                       project |-> BuildPrompt(got["projectRequirements"],
                                               got["projectCriteria"])]
           a == CurrentAttempt
           cv == BeginCompletion(providers, rateLimiters, now)
           scoring == [h EXCEPT !.pc = "scoring", !.retrievalStart = 0,
                                !.prompts = Some(prompts)]
       IN /\ calls' = [calls EXCEPT ![<<a, "cv">>] = cv.call]
          /\ rateLimiters' = cv.rl
          /\ h' = IF cv.call.pc = "rejected" THEN Catch(scoring, cv.call.result)
                  ELSE scoring
  /\ UNCHANGED <<probe, answered, storeDown, adversity,
                   providers, ragieAvailable, now, uploadedFile, evaluationJob,
                 startResponse, bull, statusLog, lastExit, faults>>

\* Promise.all of the four retrievals settles (lines 341-358); the prompts
\* are built and both scoring tasks run to their first await (lines 364-367,
\* 430-473, 509-554).
RetrievalsSettled ==
  /\ h.pc = "w_retrieval"
  /\ \E store \in StoreBehaviours(storeDown) :
       LET got == [q \in RetrievalQueries |-> Retrieve(ragieAvailable, store[q],
                                                   now - h.retrievalStart)]
           prompts == [cv |-> BuildPrompt(got["jobRequirements"], got["cvCriteria"]),
                       project |-> BuildPrompt(got["projectRequirements"],
                                               got["projectCriteria"])]
           a == CurrentAttempt
           cv == BeginCompletion(providers, rateLimiters, now)
           project == BeginCompletion(providers, cv.rl, now)
           started == [calls EXCEPT ![<<a, "cv">>] = cv.call,
                                    ![<<a, "project">>] = project.call]
           scoring == [h EXCEPT !.pc = "scoring", !.retrievalStart = 0,
                                !.prompts = Some(prompts)]
       IN /\ calls' = started
          /\ rateLimiters' = project.rl
          /\ h' = IF cv.call.pc = "rejected" THEN Catch(scoring, cv.call.result)
                  ELSE IF project.call.pc = "rejected"
                       THEN Catch(scoring, project.call.result)
                       ELSE scoring
  /\ UNCHANGED <<probe, answered, storeDown, adversity,
                   providers, ragieAvailable, now, uploadedFile, evaluationJob,
                 startResponse, bull, statusLog, lastExit, faults>>

\* callProvider of call c settles (line 115): with a completion, or with an
\* error; generateCompletion, the task and the handler run on to their next
\* await.
\* What the provider can answer call c with.  A run whose answers are
\* planned (probe) gives the planned scoring task the planned text, the
\* other scoring task the required format, and the synthesis a summary; any
\* other run gives any answer or error.
SummaryText == <<"Strongly", "Recommend">>
\* The total of a response: usage?.total_tokens || 0 (llm.service.ts 226,
\* 267); usage is what the provider reported, if it reported any.
TotalTokens(usage) == IF IsSet(usage) THEN Val(usage) ELSE 0

Outcomes(c) ==
  IF probe.fn = "usage"
  THEN IF probe.input.limited = c[2] /\ calls[c].idx = 1
       THEN {Err429}
       ELSE {[content |-> IF c[2] = "synthesis" THEN SummaryText ELSE GoodJson,
              total |-> TotalTokens(probe.input.usage[c[2]])]}
  ELSE
  IF probe.fn # "handleEvaluation" THEN Completions \cup ProviderErrors
  ELSE IF c[2] = "synthesis" THEN {[content |-> SummaryText, total |-> 5]}
  ELSE IF c[2] = probe.input.task
  THEN {[content |-> probe.input.content, total |-> 7]}
  ELSE {[content |-> GoodJson, total |-> 7]}

ProviderResponds(c) ==
  /\ calls[c].pc = "calling"
  /\ \E outcome \in Outcomes(c) :
       LET failed == outcome \in ProviderErrors
           unfit == ~failed /\ c[2] # "synthesis" /\ outcome.content # GoodJson
           g == IF failed
                THEN AttemptFails(providers, calls[c], rateLimiters, now, outcome)
                ELSE CompletionReturns(calls[c], rateLimiters, now, outcome)
           settled == [calls EXCEPT ![c] = TaskContinues(c[2], g.call)]
           next == TaskSettled(settled, h, g.rl, c, now)
       IN /\ failed => Adverse("provider")
          /\ unfit => Adverse("content")
          /\ faults' = IF failed \/ unfit THEN faults + 1 ELSE faults
          /\ answered' = answered \cup {IF failed THEN outcome.status ELSE 200}
          /\ calls' = next.calls
          /\ h' = next.h
          /\ rateLimiters' = next.rl
  /\ UNCHANGED <<probe, storeDown, adversity,
                   providers, ragieAvailable, now, uploadedFile, evaluationJob,
                 startResponse, bull, statusLog, lastExit>>

\* The backoff sleep of call c ends (line 145).
BackoffElapsed(c) ==
  /\ calls[c].pc = "sleeping"
  /\ calls' = [calls EXCEPT ![c] = NextAttempt(@)]
  /\ UNCHANGED <<probe, answered, storeDown, adversity,
                   providers, rateLimiters, ragieAvailable, now, uploadedFile,
                 evaluationJob, startResponse, bull, h, statusLog, lastExit,
                 faults>>

\* handleEvaluation has ended: the settled tasks of its attempt are dropped
\* with its frame; a task still running runs on.
DropSettled(cs, a) ==
  [c \in CallIds |->
     IF c[1] = a /\ cs[c].pc \in {"resolved", "rejected"} THEN IdleCall ELSE cs[c]]

\* The COMPLETED write settles (lines 383-399): handleEvaluation returns, or
\* goes to its catch.
\* The update holds a number that is NaN or infinite.  What the database
\* client does with such a number is outside this code: the write is
\* either stored or rejected.
HoldsNaN(data) ==
  \E f \in {"cvMatchRate", "projectScore"} \cap DOMAIN data : IsNaN(Val(data[f]))

CompletedWritten ==
  /\ h.pc = "w_completed"
  /\ \/ /\ evaluationJob' =
             [evaluationJob EXCEPT
                ![JobId] = updateJobStatus(@, "COMPLETED",
                             CompletedData(calls[<<CurrentAttempt, "cv">>].result,
                                           calls[<<CurrentAttempt, "project">>].result,
                                           calls[<<CurrentAttempt, "synthesis">>].result,
                                           h.processingTimeMs),
                             now)]
        /\ statusLog' = Append(statusLog, "COMPLETED")
        /\ h' = IdleHandler
        /\ calls' = DropSettled(calls, CurrentAttempt)
        /\ bull' = [bull EXCEPT !.state = "completed"]
        /\ lastExit' = Some(Exit(h, "return", Null, TRUE))
        /\ UNCHANGED faults
     \/ /\ \/ Adverse("database") /\ faults' = faults + 1
           \/ /\ HoldsNaN(CompletedData(calls[<<CurrentAttempt, "cv">>].result,
                                        calls[<<CurrentAttempt, "project">>].result,
                                        calls[<<CurrentAttempt, "synthesis">>].result,
                                        h.processingTimeMs))
              /\ UNCHANGED faults
        /\ h' = Catch(h, DbError("COMPLETED"))
        /\ UNCHANGED <<evaluationJob, statusLog, bull, lastExit, calls>>
  /\ UNCHANGED <<probe, answered, storeDown, adversity,
                   providers, rateLimiters, ragieAvailable, now, uploadedFile,
                 startResponse>>

\* The FAILED write settles (lines 404-409): the caught error is rethrown to
\* the queue; when the write itself is rejected, its error is what is thrown.
FailedWritten ==
  /\ h.pc = "w_failed"
  /\ \/ /\ evaluationJob' =
             [evaluationJob EXCEPT
                ![JobId] = updateJobStatus(@, "FAILED", FailedData(Val(h.caught)), now)]
        /\ statusLog' = Append(statusLog, "FAILED")
        /\ lastExit' = Some(Exit(h, "throw", h.caught, TRUE))
        /\ UNCHANGED faults
     \/ /\ Adverse("database")
        /\ faults' = faults + 1
        /\ lastExit' = Some(Exit(h, "throw", Some(DbError("FAILED")), FALSE))
        /\ UNCHANGED <<evaluationJob, statusLog>>
  /\ h' = IdleHandler
  /\ calls' = DropSettled(calls, CurrentAttempt)
  /\ bull' = BullFailed(bull)
  /\ UNCHANGED <<probe, answered, storeDown, adversity,
                   providers, rateLimiters, ragieAvailable, now, uploadedFile,
                 startResponse>>

Next ==
  \/ startEvaluation
  \/ \E id \in FileIds : deleteFile(id)
  \/ Tick
  \/ handleEvaluation
  \/ ProcessingWritten
  \/ AttemptsIncremented
  \/ FilesLoaded
  \/ RetrievalsSettled
  \/ \E c \in CallIds : ProviderResponds(c)
  \/ \E c \in CallIds : BackoffElapsed(c)
  \/ CompletedWritten
  \/ FailedWritten

Spec == Init /\ [][Next]_vars

\* ------------------------------------------------------- job life cycle

TerminalStatuses == {"COMPLETED", "FAILED"}

\* C1: once the stored status of the job is COMPLETED or FAILED, no step
\* changes it, a re-invocation of handleEvaluation by the queue included.
C1_TerminalStatusIsFinal ==
  [][(JobExists /\ Job.status \in TerminalStatuses)
       => Job'.status = Job.status]_vars

\* C2: the stored status becomes COMPLETED or FAILED only from PROCESSING,
\* never directly from QUEUED, whichever statement of the try block raised.
C2_TerminalOnlyFromProcessing ==
  [][(JobExists /\ Job'.status \in TerminalStatuses /\ Job'.status # Job.status)
       => Job.status = "PROCESSING"]_vars

\* C3: an invocation of handleEvaluation that stored PROCESSING does not end,
\* by return or by exception, with the job left in a status other than
\* COMPLETED or FAILED.
C3_AttemptEndsTerminal ==
  (IsSet(lastExit) /\ Val(lastExit).setProcessing)
    => Job.status \in TerminalStatuses

FailedWrites == {i \in DOMAIN statusLog : statusLog[i] = "FAILED"}

\* C4: an invocation of handleEvaluation that ends by an exception has stored
\* FAILED with the message of the exception its catch block received, once,
\* and throws that same exception to the queue.
C4_FailedWrittenThenRethrown ==
  (IsSet(lastExit) /\ Val(lastExit).kind = "throw")
    => /\ Val(lastExit).wrote
       /\ Val(lastExit).error = Val(lastExit).caught
       /\ Job.status = "FAILED"
       /\ Job.error = Some(Val(Val(lastExit).caught).message)
       /\ Cardinality(FailedWrites) = bull.attemptsMade

HasResult(row) == \E f \in ResultFields : IsSet(row[f])

\* C5: a COMPLETED job carries result fields and no error, a FAILED job an
\* error and no result fields, after any number of attempts.
C5_ResultXorError ==
  JobExists =>
    /\ Job.status = "COMPLETED" => HasResult(Job) /\ ~IsSet(Job.error)
    /\ Job.status = "FAILED" => IsSet(Job.error) /\ ~HasResult(Job)

\* C6: completedAt is set exactly when the status is COMPLETED or FAILED,
\* also while a later attempt of the job is processing.
C6_CompletedAtIffTerminal ==
  JobExists => (IsSet(Job.completedAt) <=> Job.status \in TerminalStatuses)

\* A state where the queue has spent every attempt of a job whose FAILED
\* status was overwritten twice by a retry.
C1_Witness ==
  /\ bull.state = "failed"
  /\ Len(SelectSeq(statusLog, LAMBDA st : st = "PROCESSING")) = QueueAttempts

\* --------------------------------------------------- failure scenarios

\* C7: when every provider call of the run was answered with HTTP 429 and
\* nothing else went wrong, an invocation of handleEvaluation ends with the
\* job FAILED, its error the aggregate "All LLM providers failed" message,
\* and no result field populated.
C7_All429EndsFailed ==
  (IsSet(lastExit) /\ adversity = "provider" /\ answered \subseteq {429})
    => /\ Val(lastExit).kind = "throw"
       /\ Job.status = "FAILED"
       /\ IsSet(Job.error)
       /\ Len(Val(Job.error)) >= 4
       /\ SubSeq(Val(Job.error), 1, 4) = <<"All", "LLM", "providers", "failed.">>
       /\ \A f \in ResultFields : ~IsSet(Job[f])

\* The queue has spent every attempt of a job whose two providers answered
\* 429 only.
C7_Witness ==
  /\ bull.state = "failed"
  /\ providers = ProviderNames
  /\ answered = {429}
  /\ Job.status = "FAILED"
  /\ Job.error = Some(AllProvidersFailed(Null).message)
  /\ Cardinality(FailedWrites) = QueueAttempts

\* C8: when the store is configured and throws on all four retrievals, both
\* scoring prompts carry the embedded default rubric and no retrieved text;
\* and when nothing else goes wrong and a provider is enabled, the
\* invocation returns with the job COMPLETED.
C8_RetrievalFailureAlone ==
  (IsSet(lastExit) /\ ragieAvailable /\ storeDown)
    => /\ IsSet(Val(lastExit).prompts)
            => \A task \in {"cv", "project"} :
                 LET prompt == Val(Val(lastExit).prompts)[task]
                 IN /\ prompt.rubric = DefaultRubric
                    /\ prompt.requirements = Null
                    /\ prompt.criteria = Null
       /\ (faults = 0 /\ providers # {})
            => /\ Val(lastExit).kind = "return"
               /\ Job.status = "COMPLETED"

\* A job COMPLETED although all four retrievals threw.
C8_Witness ==
  /\ IsSet(lastExit) /\ ragieAvailable /\ storeDown /\ faults = 0
  /\ IsSet(Val(lastExit).prompts)
  /\ Job.status = "COMPLETED"
  /\ answered = {200}

\* ------------------------------------------------- generateCompletion

Failures(log) == SelectSeq(log, LAMBDA e : e.event = "fail")

WasSkipped(log, p) == \E i \in DOMAIN log : log[i] = Ev(p, "skip", 0)

\* Every attempt the call made on p failed, and the last one ended the
\* attempts on p: a rate-limit error, or attempt retry.maxAttempts.
FailedAllAttempts(log, p) ==
  LET on == SelectSeq(log, LAMBDA e : e.provider = p /\ e.event \in {"ok", "fail"})
  IN /\ on # <<>>
     /\ \A i \in DOMAIN on : on[i].event = "fail" /\ on[i].n = i
     /\ \/ isRateLimitError(Val(on[Len(on)].error))
        \/ Len(on) = llmConfig.retry.maxAttempts

\* C9: a generateCompletion call that threw has, for every enabled provider,
\* skipped it as rate limited or failed all its attempts on it, and what it
\* threw is the one aggregate error, built from the error of its most recent
\* failed attempt.
C9_FailsOnlyWhenAllFailed ==
  \A c \in CallIds :
    calls[c].gc = "threw" =>
      LET log == calls[c].log
          failures == Failures(log)
      IN /\ \A p \in providers : WasSkipped(log, p) \/ FailedAllAttempts(log, p)
         /\ calls[c].pc = "rejected"
         /\ calls[c].result =
              AllProvidersFailed(IF failures = <<>> THEN Null
                                 ELSE failures[Len(failures)].error)

\* A call that threw after the last allowed attempt on a provider failed.
C9_Witness ==
  \E c \in CallIds :
    /\ calls[c].gc = "threw"
    /\ \E i \in DOMAIN calls[c].log :
         /\ calls[c].log[i].event = "fail"
         /\ calls[c].log[i].n = llmConfig.retry.maxAttempts

ProviderOfPriority(n) ==
  CHOOSE p \in ProviderNames : ProviderConfig(p).priority = n

\* The limiter of p holds a 429 mark whose window has not elapsed.
Marked(p) ==
  /\ IsSet(rateLimiters[p])
  /\ Val(rateLimiters[p]).count >= MarkedCount
  /\ now < Val(rateLimiters[p]).resetAt

\* C10: with both providers enabled, A (priority 1) marked rate limited and
\* B (priority 2) without a limiter window, a generateCompletion call that
\* begins passes over A and issues its first provider call to B; and no call
\* that passed over A attempts A or sleeps a backoff on it later.
C10_MarkedProviderIsSkipped ==
  [][LET A == ProviderOfPriority(1)
         B == ProviderOfPriority(2)
     IN \A c \in CallIds :
          /\ (/\ calls[c].pc = "idle" /\ calls'[c].pc # "idle"
              /\ providers = {A, B}
              /\ Marked(A) /\ ~IsSet(rateLimiters[B]))
               => calls'[c].log = <<Ev(A, "skip", 0), Ev(B, "call", 1)>>
          /\ (calls'[c].log # <<>> /\ calls'[c].log[1] = Ev(A, "skip", 0))
               => \A i \in DOMAIN calls'[c].log :
                    calls'[c].log[i].provider = A
                      => calls'[c].log[i].event = "skip"]_vars

\* A call that passed over the marked priority-1 provider and went on with
\* the priority-2 provider.
C10_Witness ==
  \E c \in CallIds :
    /\ Len(calls[c].log) > 2
    /\ calls[c].log[1] = Ev(ProviderOfPriority(1), "skip", 0)
    /\ calls[c].log[2] = Ev(ProviderOfPriority(2), "call", 1)

\* The positions a step appended to the log of call c.
Appended(c) == (Len(calls[c].log) + 1)..Len(calls'[c].log)

\* C11: when an attempt of a call on provider p fails with a rate-limit
\* error, the step leaves p marked (count 999) until 60000 ms later; the call
\* logs no backoff sleep and no further attempt on p after that failure, and
\* what it logs next is on the provider that follows p in its try-order.
C11_RateLimitErrorMovesOn ==
  [][\A c \in CallIds :
       /\ calls'[c].pc # "idle"
       /\ Len(calls'[c].log) >= Len(calls[c].log)
       => \A i \in Appended(c) :
            LET log == calls'[c].log
                e == log[i]
                order == calls'[c].order
                at == CHOOSE k \in DOMAIN order : order[k] = e.provider
            IN (e.event = "fail" /\ isRateLimitError(Val(e.error)))
                 => /\ rateLimiters'[e.provider] =
                         Some([count |-> 999, resetAt |-> now + 60000])
                    /\ \A j \in (i + 1)..Len(log) :
                         /\ log[j].event # "sleep"
                         /\ log[j].provider # e.provider
                    /\ i < Len(log)
                         => /\ at < Len(order)
                            /\ log[i + 1].provider = order[at + 1]
                            /\ log[i + 1].event \in {"skip", "call"}
                    /\ i = Len(log)
                         => /\ at = Len(order)
                            /\ calls'[c].gc = "threw"]_vars

\* A call whose 429 on the first provider was followed at once by attempt 1
\* on the second.
C11_Witness ==
  \E c \in CallIds :
    \E i \in DOMAIN calls[c].log :
      /\ i < Len(calls[c].log)
      /\ calls[c].log[i] = Failure(ProviderOfPriority(1), 1, Err429)
      /\ calls[c].log[i + 1] = Ev(ProviderOfPriority(2), "call", 1)
      /\ Marked(ProviderOfPriority(1))

\* ------------------------------------------------ helpers, called directly

\* The services at rest: both providers initialised, no job, nothing running.
AtRest ==
  /\ providers = ProviderNames
  /\ rateLimiters = [p \in ProviderNames |-> Null]
  /\ ragieAvailable = FALSE
  /\ now = 0
  /\ uploadedFile = FileIds
  /\ evaluationJob = <<>>
  /\ startResponse = Null
  /\ bull = [state |-> "none", attemptsMade |-> 0]
  /\ h = IdleHandler
  /\ calls = [c \in CallIds |-> IdleCall]
  /\ statusLog = <<>>
  /\ lastExit = Null
  /\ answered = {}
  /\ storeDown = FALSE
  /\ adversity = "content"
  /\ faults = 0

system ==
  <<providers, rateLimiters, ragieAvailable, now, uploadedFile, evaluationJob,
    startResponse, bull, h, calls, statusLog, lastExit, answered, storeDown,
    adversity, faults>>

Call(fn, input) == [fn |-> fn, input |-> input, output |-> Null]

\* The helper fn has been called and has not returned yet.
Calling(fn) == probe.fn = fn /\ ~IsSet(probe.output)

\* The call with its return value.
Return(value) == [probe EXCEPT !.output = Some(value)]

Returned(fn) == probe.fn = fn /\ IsSet(probe.output)

\* getSortedProviders(preferredProvider) on a service with the providers
\* `has`: the hint is absent, a configured name, or an unknown name.
UnknownProvider == "openai"
SortInputs ==
  {[has |-> hs, preferred |-> pf] :
     hs \in SUBSET ProviderNames,
     pf \in {Null} \cup {Some(n) : n \in ProviderNames \cup {UnknownProvider}}}

SortProviders ==
  /\ Calling("getSortedProviders")
  /\ probe' = Return(getSortedProviders(probe.input.has, probe.input.preferred))
  /\ UNCHANGED system

\* Error messages: a phrase in one of three casings, alone or inside a
\* longer message.
RateLimitPhrases ==
  {<<"rate", "limit">>, <<"too", "many", "requests">>, <<"quota", "exceeded">>}
OtherPhrases ==
  {<<>>, <<"internal", "error">>, <<"rate", "exceeded">>, <<"too", "many">>,
   <<"limit", "rate">>}

TitleWord(w) ==
  CASE w = "too" -> "Too"
    [] w = "many" -> "Many"
    [] w = "requests" -> "Requests"
    [] w = "rate" -> "Rate"
    [] w = "limit" -> "Limit"
    [] w = "quota" -> "Quota"
    [] w = "exceeded" -> "Exceeded"
    [] w = "internal" -> "Internal"
    [] w = "error" -> "Error"

UpperWord(w) ==
  CASE w = "too" -> "TOO"
    [] w = "many" -> "MANY"
    [] w = "requests" -> "REQUESTS"
    [] w = "rate" -> "RATE"
    [] w = "limit" -> "LIMIT"
    [] w = "quota" -> "QUOTA"
    [] w = "exceeded" -> "EXCEEDED"
    [] w = "internal" -> "INTERNAL"
    [] w = "error" -> "ERROR"

Cased(phrase, casing) ==
  [i \in DOMAIN phrase |->
     CASE casing = "lower" -> phrase[i]
       [] casing = "Title" -> TitleWord(phrase[i])
       [] casing = "UPPER" -> UpperWord(phrase[i])]

ErrorInputs ==
  {[status |-> st, phrase |-> ph, casing |-> cs, padded |-> pd] :
     st \in {0, 429, 500, 503},
     ph \in RateLimitPhrases \cup OtherPhrases,
     cs \in {"lower", "Title", "UPPER"},
     pd \in BOOLEAN}

\* The error object of an input: { status, message }.
ErrorOf(input) ==
  [status |-> input.status,
   message |-> IF input.padded
               THEN <<"Request", "failed:">> \o Cased(input.phrase, input.casing)
                      \o <<"for", "model">>
               ELSE Cased(input.phrase, input.casing)]

\* isRateLimitError(error), and what the catch block of generateCompletion
\* does with that error on the first attempt of a call on the first provider.
ClassifyError ==
  /\ Calling("isRateLimitError")
  /\ LET error == ErrorOf(probe.input)
         first == BeginCompletion(ProviderNames, rateLimiters, now)
         next == AttemptFails(ProviderNames, first.call, first.rl, now, error).call
     IN probe' = Return([rateLimit |-> isRateLimitError(error),
                         pc |-> next.pc, idx |-> next.idx,
                         attempt |-> next.attempt])
  /\ UNCHANGED system

\* An answer that holds the JSON text of an object between an opening fence
\* of either kind and a closing fence, with prose before and after it.
Proses ==
  { [before |-> <<"Here", "is", "the", "evaluation:">>,
     after |-> <<"Let", "me", "know.">>],
    [before |-> <<"As", "JSON", "{", "scores", "}", ":">>,
     after |-> <<"Done.">>],
    [before |-> <<"Evaluation:">>,
     after |-> <<"(format", "{", "}", ")">>] }
AnswerInputs ==
  {[payload |-> p, fence |-> f, prose |-> pr] :
     p \in Payloads, f \in {FenceJson, Fence}, pr \in Proses}
AnswerOf(input) ==
  input.prose.before \o <<input.fence>> \o JsonStringify(input.payload)
    \o <<Fence>> \o input.prose.after

ParseResponse ==
  /\ Calling("parseJSONResponse")
  /\ probe' = Return(parseJSONResponse(AnswerOf(probe.input)))
  /\ UNCHANGED system

\* One retrieval: the client is configured or not, the store throws or
\* returns up to MaxChunks scored passages, in rank order.
MaxChunks == 3
ChunkScores == {5, 10, 30}
ScoredChunks == [text : {"A", "B"}, score : ChunkScores]
ChunkLists == UNION {[1..n -> ScoredChunks] : n \in 0..MaxChunks}
RetrieveInputs ==
  {[available |-> av, resp |-> rs, elapsed |-> 40] :
     av \in BOOLEAN, rs \in {StoreThrows} \cup {StoreReturns(l) : l \in ChunkLists}}

RetrieveContext ==
  /\ Calling("retrieve")
  /\ probe' = Return([result |-> Retrieve(probe.input.available, probe.input.resp,
                                          probe.input.elapsed),
                      called |-> StoreCalled(probe.input.available)])
  /\ UNCHANGED system

\* The four retrievals of an attempt and the two system prompts built from
\* them (lines 341-358, 430-449, 509-529): each retrieval throws, returns
\* nothing, returns a passage below the floor, or returns a passage above it.
PromptInputs ==
  {[available |-> av, store |-> st] :
     av \in BOOLEAN, st \in [RetrievalQueries -> StoreResponses]}

BuildPrompts ==
  /\ Calling("buildPrompts")
  /\ LET got == [q \in RetrievalQueries |->
                   Retrieve(probe.input.available, probe.input.store[q], 0)]
     IN probe' = Return([cv |-> BuildPrompt(got["jobRequirements"],
                                            got["cvCriteria"]),
                         project |-> BuildPrompt(got["projectRequirements"],
                                                 got["projectCriteria"])])
  /\ UNCHANGED system

\* calculateWeightedScore on a criterion map, and on the same map with every
\* weight multiplied by k (lines 692-703).  A criterion is absent or holds
\* a score of 1 to 5 and a weight in hundredths.
CriterionScores == 1..5
CriterionWeights == {0, 10, 30, 40, 60, 70, 90}
ScaleFactors == {2, 3, 10}

CriterionMaps ==
  [{"technical_skills", "code_quality"} ->
     {Null} \cup {Some([score |-> JNumber(s), weight |-> JNumber(w)]) :
                    s \in CriterionScores, w \in CriterionWeights}]

ScoreInputs == {[scores |-> m, k |-> k] : m \in CriterionMaps, k \in ScaleFactors}

Scaled(scores, k) ==
  [c \in DOMAIN scores |->
     IF IsSet(scores[c])
     THEN Some([Val(scores[c]) EXCEPT !.weight = JNumber(k * @.value)])
     ELSE Null]

WeightScores ==
  /\ Calling("calculateWeightedScore")
  /\ probe' = Return([score |-> calculateWeightedScore(Some(probe.input.scores)),
                      scaled |-> calculateWeightedScore(
                                   Some(Scaled(probe.input.scores, probe.input.k)))])
  /\ UNCHANGED system

\* The three limiter helpers called on the limiter of one provider, one
\* after the other at times that do not go back (lines 296-328).  The
\* limiter starts absent, or as a window up to 60000 whose count is 1, one
\* under the provider's requests-per-minute ceiling, or at it.
LimiterOps == {"isRateLimited", "trackRequest", "markRateLimited"}
LimiterTimes == {0, 30000, 59999, 60000}
MaxOps == 3

LimiterStarts(name) ==
  {Null} \cup {Some([count |-> c, resetAt |-> 60000]) :
                 c \in {1, ProviderConfig(name).rateLimit.rpm - 1,
                        ProviderConfig(name).rateLimit.rpm}}

OpLists ==
  {ops \in UNION {[1..n -> [op : LimiterOps, at : LimiterTimes]] : n \in 1..MaxOps} :
     \A i \in 1..(Len(ops) - 1) : ops[i].at <= ops[i + 1].at}

LimiterInputs ==
  UNION {{[name |-> n, start |-> st, ops |-> ops] :
            st \in LimiterStarts(n), ops \in OpLists} : n \in ProviderNames}

\* What each call of ops answers (Null unless it is isRateLimited) and the
\* limiter it leaves.
RECURSIVE RunLimiter(_, _, _)
RunLimiter(rl, name, ops) ==
  IF ops = <<>> THEN <<>>
  ELSE LET o == ops[1]
           r == IF o.op = "isRateLimited"
                THEN LET a == isRateLimited(rl, name, o.at)
                     IN [answer |-> Some(a.limited), rl |-> a.rl]
                ELSE IF o.op = "trackRequest"
                THEN [answer |-> Null, rl |-> trackRequest(rl, name, o.at)]
                ELSE [answer |-> Null, rl |-> markRateLimited(rl, name, o.at)]
       IN <<[answer |-> r.answer, limiter |-> r.rl[name]]>>
            \o RunLimiter(r.rl, name, Tail(ops))

UseLimiter ==
  /\ Calling("rateLimiters")
  /\ probe' = Return(RunLimiter([rateLimiters EXCEPT ![probe.input.name] =
                                                      probe.input.start],
                                probe.input.name, probe.input.ops))
  /\ UNCHANGED system

HelpersInit ==
  /\ AtRest
  /\ \/ probe \in {Call("getSortedProviders", i) : i \in SortInputs}
     \/ probe \in {Call("isRateLimitError", i) : i \in ErrorInputs}
     \/ probe \in {Call("parseJSONResponse", i) : i \in AnswerInputs}
     \/ probe \in {Call("buildPrompts", i) : i \in PromptInputs}
     \/ probe \in {Call("retrieve", i) : i \in RetrieveInputs}
     \/ probe \in {Call("calculateWeightedScore", i) : i \in ScoreInputs}
     \/ probe \in {Call("rateLimiters", i) : i \in LimiterInputs}

HelpersNext ==
  \/ SortProviders
  \/ ClassifyError
  \/ ParseResponse
  \/ BuildPrompts
  \/ RetrieveContext
  \/ WeightScores
  \/ UseLimiter

Helpers == HelpersInit /\ [][HelpersNext]_vars

\* ------------------------------------------ a job with planned answers

\* The objects a scoring task is answered with in these runs.
ScoringPayloads == {p \in Payloads : p.overall_feedback = Some(FeedbackS)}

\* The text of an object between fences.
Fenced(payload) == <<FenceJson>> \o JsonStringify(payload) \o <<Fence>>

\* Answers without a '{'...'}' span, or with a span that is no JSON text:
\* prose, nothing, a lone brace, the braces in the wrong order, an answer
\* cut off before its last brace, an object with a stray word, and the
\* required format after prose that has braces of its own.
Truncated(text) == SubSeq(text, 1, Len(text) - 1)
BadTexts ==
  { NoJson,
    <<>>,
    <<"{", "scores:">>,
    <<"}", "then", "{">>,
    <<FenceJson>> \o Truncated(JsonStringify(PayloadS)),
    <<FenceJson, "{", "oops", "}", Fence>>,
    <<"Format", "{", "draft", "}", ":">> \o Fenced(PayloadS) }

\* A plan: the scoring task, its answer, and, when the answer is the text
\* of an object, that object.
Plan(task, payload, content) ==
  [fn |-> "handleEvaluation",
   input |-> [task |-> task, payload |-> payload, content |-> content],
   output |-> Null]

ScoringInit ==
  /\ AtRest
  /\ \E task \in {"cv", "project"} :
       \/ \E p \in ScoringPayloads : probe = Plan(task, Some(p), Fenced(p))
       \/ \E t \in BadTexts : probe = Plan(task, Null, t)

ScoringNext ==
  \/ startEvaluation
  \/ Tick
  \/ handleEvaluation
  \/ ProcessingWritten
  \/ AttemptsIncremented
  \/ FilesLoaded
  \/ RetrievalsSettled
  \/ \E c \in CallIds : ProviderResponds(c)
  \/ CompletedWritten
  \/ FailedWritten

Scoring == ScoringInit /\ [][ScoringNext]_vars

\* ---------------------------------------------------------------------
\* One attempt, its retrievals laid open.  The job runs of a service whose
\* providers and database answer (files may be deleted by a collaborator),
\* beside the prompt building of handleEvaluation (lines 341-358, 425-449)
\* applied to every combination of answers of the store to the four
\* queries, a failure of any single query included.
AttemptInit ==
  \/ Init /\ adversity = "files"
  \/ AtRest /\ probe \in {Call("buildPrompts", i) : i \in PromptInputs}

\* A job runs in the service as it was started; the prompt building is
\* applied on its own.
AttemptNext ==
  \/ probe = NoProbe /\ startEvaluation
  \/ probe = NoProbe /\ \E id \in FileIds : deleteFile(id)
  \/ probe = NoProbe /\ Tick
  \/ probe = NoProbe /\ handleEvaluation
  \/ probe = NoProbe /\ ProcessingWritten
  \/ probe = NoProbe /\ AttemptsIncremented
  \/ probe = NoProbe /\ FilesLoaded
  \/ probe = NoProbe /\ RetrievalsSettled
  \/ probe = NoProbe /\ \E c \in CallIds : ProviderResponds(c)
  \/ probe = NoProbe /\ CompletedWritten
  \/ probe = NoProbe /\ FailedWritten
  \/ BuildPrompts

Attempt == AttemptInit /\ [][AttemptNext]_vars

\* ---------------------------------------------------------------------
\* A job whose providers report planned usage.  Each task's response
\* carries the usage planned for the task, or none; in the runs where a
\* provider fails, the first backend answers one task with 429, so that the
\* three responses of an attempt come from different backends; in the
\* others the database may reject writes, so that an attempt is retried.
UsageTotals == {Null, Some(3), Some(7)}

UsagePlan(usage, limited) ==
  [fn |-> "usage", input |-> [usage |-> usage, limited |-> limited],
   output |-> Null]

\* The service with both backends and no retrieval client, no job started.
Constructed ==
  /\ providers = ProviderNames
  /\ ragieAvailable = FALSE
  /\ now = 0
  /\ uploadedFile = FileIds
  /\ evaluationJob = <<>>
  /\ startResponse = Null
  /\ bull = [state |-> "none", attemptsMade |-> 0]
  /\ h = IdleHandler
  /\ calls = [c \in CallIds |-> IdleCall]
  /\ statusLog = <<>>
  /\ lastExit = Null
  /\ answered = {}
  /\ storeDown = FALSE
  /\ faults = 0

MeteredInit ==
  /\ Constructed
  /\ rateLimiters = [p \in ProviderNames |-> Null]
  /\ \E usage \in [Tasks -> UsageTotals] :
       \/ adversity = "database" /\ probe = UsagePlan(usage, "none")
       \/ adversity = "provider"
          /\ \E task \in Tasks : probe = UsagePlan(usage, task)

Metered == MeteredInit /\ [][ScoringNext]_vars

\* ---------------------------------------------------------------------
\* A job started in a service that has served other jobs in the current
\* minute: one backend's window is open and holds a count up to the
\* backend's ceiling.
BusyInit ==
  /\ Constructed
  /\ probe = NoProbe
  /\ adversity = "content"
  /\ \E name \in ProviderNames : \E start \in LimiterStarts(name) :
       rateLimiters = [p \in ProviderNames |-> IF p = name THEN start ELSE Null]

Busy == BusyInit /\ [][ScoringNext]_vars

\* ---------------------------------------------------------------------
\* A job started while the queue's store may be unreachable: the one thing
\* that fails is evaluationQueue.add (evaluation.service.ts 62-73).
EnqueueInit == ServiceUp({"queue"})

Enqueue == EnqueueInit /\ [][ScoringNext]_vars

Ascending(order) ==
  \A i, j \in DOMAIN order :
    i < j => ProviderConfig(order[i]).priority < ProviderConfig(order[j]).priority

\* C12: the try-order holds every initialised provider exactly once, in
\* ascending priority, except that a hint naming an initialised provider
\* puts that provider first; any other hint changes nothing.
C12_TryOrder ==
  Returned("getSortedProviders") =>
    LET has == probe.input.has
        hint == probe.input.preferred
        order == Val(probe.output)
    IN /\ {order[i] : i \in DOMAIN order} = has
       /\ Len(order) = Cardinality(has)
       /\ IF IsSet(hint) /\ Val(hint) \in has
          THEN order[1] = Val(hint) /\ Ascending(Tail(order))
          ELSE Ascending(order)

\* The hint moved the priority-2 provider in front of the priority-1 one.
C12_Witness ==
  /\ Returned("getSortedProviders")
  /\ probe.input.preferred = Some(ProviderOfPriority(2))
  /\ Val(probe.output) = <<ProviderOfPriority(2), ProviderOfPriority(1)>>

\* C13: an error is classified rate-limit exactly when its status is 429 or
\* its message contains one of the three phrases, in any casing; any other
\* error is retried on the same provider after a backoff sleep, a rate-limit
\* error moves the call on to the next provider.
C13_RateLimitClassification ==
  Returned("isRateLimitError") =>
    LET expected == \/ probe.input.status = 429
                    \/ probe.input.phrase \in RateLimitPhrases
        out == Val(probe.output)
    IN /\ out.rateLimit <=> expected
       /\ expected => out.pc = "calling" /\ out.idx = 2 /\ out.attempt = 1
       /\ ~expected => out.pc = "sleeping" /\ out.idx = 1 /\ out.attempt = 1

\* 'Too Many Requests' without a status was classified rate-limit.
C13_Witness ==
  /\ Returned("isRateLimitError")
  /\ ErrorOf(probe.input) = ErrTooMany
  /\ Val(probe.output).rateLimit

\* ---------------------------------------------------------------------
\* startEvaluation and getJobResult

\* The request was rejected: the response is the exception's message.
Rejected(response) == IsSet(response) /\ "error" \in DOMAIN Val(response)

\* C14: a request naming a CV file or a project report file that is not among
\* the uploaded files is rejected, creates no job record and enqueues nothing;
\* a job record appears only in a step that found both files, and it appears
\* QUEUED.
C14_MissingFileRejected ==
  [][/\ (startResponse = Null /\ startResponse' # Null
           /\ ~({CvFileId, ProjectFileId} \subseteq uploadedFile))
        => /\ Rejected(startResponse')
           /\ ~JobExists'
           /\ evaluationJob' = evaluationJob
           /\ bull' = bull
     /\ (~JobExists /\ JobExists')
        => /\ {CvFileId, ProjectFileId} \subseteq uploadedFile
           /\ Job'.status = "QUEUED"
           /\ bull'.state = "waiting"
           /\ ~Rejected(startResponse')]_vars

C14_Witness ==
  /\ Rejected(startResponse)
  /\ ~JobExists
  /\ bull.state = "none"
  /\ CvFileId \in uploadedFile
  /\ ProjectFileId \notin uploadedFile

\* C15: the response of getJobResult carries the result payload exactly when
\* the job is COMPLETED and the error exactly when it is FAILED; a QUEUED or
\* PROCESSING job, also one whose earlier attempt failed and left its error in
\* the record, is answered with neither.
C15_ResultIffCompletedErrorIffFailed ==
  JobExists =>
    LET response == Val(getJobResult(JobId))
    IN /\ response.status = Job.status
       /\ ("result" \in DOMAIN response) <=> (Job.status = "COMPLETED")
       /\ ("error" \in DOMAIN response) <=> (Job.status = "FAILED")
       /\ Job.status = "COMPLETED" =>
            response.result.overall_summary = Job.overallSummary
       /\ Job.status = "FAILED" => Some(response.error) = Job.error
       /\ Job.status \in {"QUEUED", "PROCESSING"} =>
            DOMAIN response \cap {"result", "error", "processing_time_ms"} = {}

C15_Witness ==
  /\ JobExists
  /\ Job.status = "PROCESSING"
  /\ IsSet(Job.error)
  /\ Job.attempts = 2
  /\ "error" \notin DOMAIN Val(getJobResult(JobId))

\* ---------------------------------------------------------------------
\* The scores of a COMPLETED job

\* lo <= x <= hi for a fraction x; NaN is in no range.
Between(x, lo, hi) ==
  /\ x.den > 0
  /\ lo * x.den <= x.num
  /\ x.num <= hi * x.den

\* C16: for every COMPLETED job the CV match rate, as stored in the job
\* record and as returned by getJobResult, is a number between 0 and 1, for
\* per-criterion scores between 1 and 5 and the rubric's weights.
C16_MatchRateInUnitInterval ==
  (JobExists /\ Job.status = "COMPLETED") =>
    /\ IsSet(Job.cvMatchRate)
    /\ Between(Val(Job.cvMatchRate), 0, 1)
    /\ Between(Val(Val(getJobResult(JobId)).result.cv_match_rate), 0, 1)

\* C17: for every COMPLETED job the project score, as stored and as returned
\* by getJobResult, lies between 1 and 5, whatever object the model's answer
\* decodes to.
C17_ProjectScoreInRange ==
  (JobExists /\ Job.status = "COMPLETED") =>
    /\ IsSet(Job.projectScore)
    /\ Between(Val(Job.projectScore), 1, 5)
    /\ Between(Val(Val(getJobResult(JobId)).result.project_score), 1, 5)

\* The object lacks the required score structure: it has no scores map, or
\* a map without criteria, or a criterion whose score or weight is no number.
LacksScoreStructure(payload) ==
  \/ ~IsSet(payload.scores)
  \/ \A c \in DOMAIN Val(payload.scores) : ~IsSet(Val(payload.scores)[c])
  \/ \E c \in DOMAIN Val(payload.scores) :
        /\ IsSet(Val(payload.scores)[c])
        /\ \/ Val(Val(payload.scores)[c]).score.type # "number"
           \/ Val(Val(payload.scores)[c]).weight.type # "number"

\* C18: when a scoring task is answered with an object that lacks the
\* required score structure, the job is never COMPLETED, and every attempt
\* that has ended left it FAILED.
C18_MalformedScoresEndFailed ==
  (/\ probe.fn = "handleEvaluation"
   /\ IsSet(probe.input.payload)
   /\ LacksScoreStructure(Val(probe.input.payload))
   /\ JobExists) =>
    /\ Job.status # "COMPLETED"
    /\ IsSet(lastExit) => Job.status = "FAILED"

\* C19: when a scoring task is answered with a text that, fences removed,
\* has no '{'...'}' span or a span that is no JSON text, the task throws
\* 'Failed to parse LLM response: ...': the job is never COMPLETED on
\* scores put in place of the answer, and every attempt that has ended left
\* it FAILED with that error.
C19_UnparsableAnswerEndsFailed ==
  (probe.fn = "handleEvaluation" /\ ~IsSet(probe.input.payload) /\ JobExists) =>
    /\ Job.status # "COMPLETED"
    /\ ~IsSet(Job.cvMatchRate) /\ ~IsSet(Job.projectScore)
    /\ IsSet(lastExit) =>
         /\ Job.status = "FAILED"
         /\ IsSet(Job.error)
         /\ Len(Val(Job.error)) > 5
         /\ SubSeq(Val(Job.error), 1, 5)
              = <<"Failed", "to", "parse", "LLM", "response:">>
         /\ Val(lastExit).kind = "throw"

C19_Witness ==
  /\ probe.fn = "handleEvaluation"
  /\ probe.input.content = <<FenceJson>> \o Truncated(JsonStringify(PayloadS))
  /\ JobExists
  /\ Job.status = "FAILED"
  /\ IsSet(lastExit)
  /\ bull.state = "failed"

\* C20: the JSON text of any score object, put between code fences of
\* either kind and surrounded with prose, is parsed by parseJSONResponse
\* back to an object equal to the original.
C20_ParseRoundTrip ==
  Returned("parseJSONResponse") =>
    /\ Val(probe.output).ok
    /\ Val(probe.output).value = probe.input.payload

\* ---------------------------------------------------------------------
\* Retrieval and the scoring prompts

\* The store handed the query a passage at or above the floor.
Retrieved(input, q) ==
  /\ input.available
  /\ ~input.store[q].threw
  /\ \E i \in DOMAIN input.store[q].scoredChunks :
        input.store[q].scoredChunks[i].score >= 10

\* The rubric sections of a prompt.
Rubrics(prompt) ==
  SelectSeq(prompt.sections, LAMBDA x : x \in {GroundTruth, DefaultRubric})

\* C21: whatever the four retrievals gave (passages, nothing, a failure),
\* each of the two scoring prompts holds exactly one rubric: the retrieved
\* criteria when there are any, else the embedded default criteria.
C21_ExactlyOneRubric ==
  Returned("buildPrompts") =>
    LET prompts == Val(probe.output)
        CriteriaOf(task) == IF task = "cv" THEN "cvCriteria" ELSE "projectCriteria"
    IN \A task \in {"cv", "project"} :
         /\ Len(Rubrics(prompts[task])) = 1
         /\ Rubrics(prompts[task])
              = IF Retrieved(probe.input, CriteriaOf(task))
                THEN <<GroundTruth>> ELSE <<DefaultRubric>>
         /\ Retrieved(probe.input, CriteriaOf(task))
              => /\ IsSet(prompts[task].criteria)
                 /\ Val(prompts[task].criteria) # <<>>

C21_Witness ==
  /\ Returned("buildPrompts")
  /\ probe.input.available
  /\ probe.input.store["cvCriteria"].threw
  /\ Retrieved(probe.input, "projectCriteria")
  /\ Rubrics(Val(probe.output).cv) = <<DefaultRubric>>
  /\ Rubrics(Val(probe.output).project) = <<GroundTruth>>

\* C22: a retrieval never raises; when the store throws, and whenever the
\* client was constructed without credentials, it returns the empty result
\* (no context, no passages, score 0, latency 0), and without credentials
\* the store is not asked at all.
C22_RetrievalFailsToEmpty ==
  (Returned("retrieve") /\ (probe.input.resp.threw \/ ~probe.input.available)) =>
    /\ Val(probe.output).result.context = <<>>
    /\ Val(probe.output).result.chunks = <<>>
    /\ Val(probe.output).result.relevanceScore = [num |-> 0, den |-> 1]
    /\ Val(probe.output).result.retrievalTimeMs = 0
    /\ ~probe.input.available => ~Val(probe.output).called

C22_Witness ==
  /\ Returned("retrieve")
  /\ ~probe.input.available
  /\ ~probe.input.resp.threw
  /\ Len(probe.input.resp.scoredChunks) = 2
  /\ probe.input.resp.scoredChunks[1].score = 30
  /\ Val(probe.output).result.chunks = <<>>

\* The passages of a list at or above the floor, in the order of the list.
RECURSIVE KeptOf(_)
KeptOf(list) ==
  IF list = <<>> THEN <<>>
  ELSE (IF list[1].score >= 10 THEN <<list[1]>> ELSE <<>>) \o KeptOf(Tail(list))

RECURSIVE TotalOf(_)
TotalOf(list) == IF list = <<>> THEN 0 ELSE list[1].score + TotalOf(Tail(list))

Present(scores) == {c \in DOMAIN scores : IsSet(scores[c])}

RECURSIVE WeightSumOver(_, _)
WeightSumOver(scores, keys) ==
  IF keys = {} THEN 0
  ELSE LET c == CHOOSE x \in keys : TRUE
       IN Val(scores[c]).weight.value + WeightSumOver(scores, keys \ {c})

RECURSIVE ProductSumOver(_, _)
ProductSumOver(scores, keys) ==
  IF keys = {} THEN 0
  ELSE LET c == CHOOSE x \in keys : TRUE
       IN Val(scores[c]).score.value * Val(scores[c]).weight.value
            + ProductSumOver(scores, keys \ {c})

ScoreOf(item) == item.score.value

WeightSum(scores) == WeightSumOver(scores, Present(scores))
ProductSum(scores) == ProductSumOver(scores, Present(scores))
MinScore(scores) ==
  CHOOSE s \in {ScoreOf(Val(scores[c])) : c \in Present(scores)} :
    \A c \in Present(scores) : s <= ScoreOf(Val(scores[c]))
MaxScore(scores) ==
  CHOOSE s \in {ScoreOf(Val(scores[c])) : c \in Present(scores)} :
    \A c \in Present(scores) : s >= ScoreOf(Val(scores[c]))

\* C24: for every criterion map whose weights sum to 1.0 the weighted score
\* lies between the smallest and the largest criterion score, inclusive.
C24_ScoreBetweenMinAndMax ==
  (Returned("calculateWeightedScore") /\ WeightSum(probe.input.scores) = 100) =>
    Between(Val(probe.output).score,
            MinScore(probe.input.scores), MaxScore(probe.input.scores))

\* C25: multiplying every weight of a criterion map by the same k > 0 leaves
\* the weighted score unchanged.
C25_ScaleInvariant ==
  (Returned("calculateWeightedScore") /\ WeightSum(probe.input.scores) > 0) =>
    /\ Val(probe.output).score.den > 0
    /\ Val(probe.output).scaled.den > 0
    /\ Val(probe.output).score.num * Val(probe.output).scaled.den
         = Val(probe.output).scaled.num * Val(probe.output).score.den

\* C26: for every criterion map, whichever criteria it holds and whatever
\* their weights, the weighted score is a defined number: the sum of score
\* times weight over the sum of the weights.
C26_DefinedQuotient ==
  Returned("calculateWeightedScore") =>
    /\ Val(probe.output).score.den > 0
    /\ Val(probe.output).score.num * WeightSum(probe.input.scores)
         = ProductSum(probe.input.scores) * Val(probe.output).score.den

\* The usage tracked for p at time t: the count of its window, 0 when it has
\* no window or the window has elapsed.
Usage(rl, p, t) ==
  IF IsSet(rl[p]) /\ t < Val(rl[p]).resetAt THEN Val(rl[p]).count ELSE 0

\* The step is call c resuming from a provider call on p: with the response
\* (Served), with a rate-limit error (Refused), or as a task whose outcome
\* nothing awaits any more and whose frame is dropped (Orphaned).
Served(c, p) ==
  /\ calls[c].pc = "calling" /\ calls'[c].pc # "idle"
  /\ Len(calls'[c].log) = Len(calls[c].log) + 1
  /\ calls'[c].log[Len(calls'[c].log)] = Ev(p, "ok", calls[c].attempt)

Refused(c, p) ==
  /\ calls[c].pc = "calling" /\ calls'[c].pc # "idle"
  /\ Len(calls'[c].log) > Len(calls[c].log)
  /\ LET e == calls'[c].log[Len(calls[c].log) + 1]
     IN e.provider = p /\ e.event = "fail" /\ isRateLimitError(Val(e.error))

Orphaned(c, p) ==
  /\ calls[c].pc = "calling" /\ calls'[c].pc = "idle"
  /\ calls[c].log[Len(calls[c].log)].provider = p

\* C27 (as amended): whichever way the concurrent calls interleave, a step
\* in which a call is served by p adds exactly one to the count of p's
\* window (a window that has elapsed counts 0), a step in which p refuses a
\* call with a rate-limit error sets the count to 999 in a new window of
\* 60000 ms, no other step changes the count, and while the window of a 429
\* mark has not elapsed no success of another call brings the count back
\* under 999 or moves the reset time.
C27_UsageCountedOnce ==
  [][\A p \in ProviderNames :
       LET before == Usage(rateLimiters, p, now)
           after == Usage(rateLimiters', p, now')
           served == \E c \in CallIds : Served(c, p)
           refused == \E c \in CallIds : Refused(c, p)
           orphaned == \E c \in CallIds : Orphaned(c, p)
       IN /\ served => after = before + 1
          /\ refused => rateLimiters'[p] =
                           Some([count |-> 999, resetAt |-> now + 60000])
          /\ (~served /\ ~refused /\ ~orphaned /\ now' = now) => after = before
          /\ orphaned => \/ after \in {before, before + 1}
                          \/ rateLimiters'[p] =
                               Some([count |-> 999, resetAt |-> now + 60000])
          /\ (Marked(p) /\ now' < Val(rateLimiters[p]).resetAt /\ ~refused)
               => /\ IsSet(rateLimiters'[p])
                  /\ Val(rateLimiters'[p]).count >= 999
                  /\ Val(rateLimiters'[p]).resetAt = Val(rateLimiters[p]).resetAt]_vars

\* A call was served by the priority-1 provider after a concurrent call had
\* marked that provider: the count stands at 999 + 1.
C27_Witness ==
  /\ Marked(ProviderOfPriority(1))
  /\ Val(rateLimiters[ProviderOfPriority(1)]).count = 999 + 1
  /\ \E c \in CallIds :
       /\ calls[c].gc = "returned"
       /\ calls[c].log[Len(calls[c].log)].provider = ProviderOfPriority(1)

\* C27 as stated: the count of p's window is the number of calls p served
\* in that window, so a step leaves it, adds one to it, or (the window
\* elapsing) brings it to 0.
C27_CountIsSuccessesOfWindow ==
  [][\A p \in ProviderNames :
       Usage(rateLimiters', p, now')
         \in {Usage(rateLimiters, p, now), Usage(rateLimiters, p, now) + 1, 0}]_vars

\* The step is call c resuming from a provider call on p with an error.
Failed(c, p) ==
  /\ calls[c].pc = "calling" /\ calls'[c].pc # "idle"
  /\ Len(calls'[c].log) > Len(calls[c].log)
  /\ LET e == calls'[c].log[Len(calls[c].log) + 1]
     IN e.provider = p /\ e.event = "fail"

\* The step adds one unit to the usage tracked for q.
RecordsUnit(q) ==
  Usage(rateLimiters', q, now') = Usage(rateLimiters, q, now) + 1

\* C28: a step in which a call gets its response from p records one unit of
\* usage against p, the response the call returns names p, and the usage of
\* every other provider stays as it is; no other step records a unit: not
\* a failed attempt, not the passing over of a rate-limited provider, not
\* the end of a call in the aggregate failure.
C28_OneUnitPerSuccess ==
  [][/\ \A c \in CallIds : \A p \in ProviderNames :
          Served(c, p) =>
            /\ RecordsUnit(p)
            /\ calls'[c].pc = "resolved" => calls'[c].result.provider = p
            /\ \A q \in ProviderNames \ {p} :
                 Usage(rateLimiters', q, now') = Usage(rateLimiters, q, now)
     /\ \A q \in ProviderNames :
          RecordsUnit(q) => \E c \in CallIds : Served(c, q) \/ Orphaned(c, q)
     /\ \A c \in CallIds : \A p \in ProviderNames :
          Failed(c, p) =>
            /\ \A q \in ProviderNames : ~RecordsUnit(q)
            /\ \A q \in ProviderNames \ {p} :
                 Usage(rateLimiters', q, now') = Usage(rateLimiters, q, now)
            /\ ~isRateLimitError(Val(calls'[c].log[Len(calls[c].log) + 1].error))
                 => rateLimiters'[p] = rateLimiters[p]]_vars

\* A call that failed three times on the priority-1 provider and was then
\* served by the priority-2 provider: one unit against the latter, none
\* against the former.
C28_Witness ==
  \E c \in CallIds :
    /\ calls[c].gc = "returned"
    /\ calls[c].log[1] = Ev(ProviderOfPriority(1), "call", 1)
    /\ calls[c].log[Len(calls[c].log)] = Ev(ProviderOfPriority(2), "ok", 1)
    /\ rateLimiters[ProviderOfPriority(1)] = Null
    /\ rateLimiters[ProviderOfPriority(2)] = Some([count |-> 1, resetAt |-> now + 60000])

\* C29: isRateLimited answers true exactly when the provider has a window
\* whose reset time is not reached and whose count is at least the
\* provider's requests-per-minute ceiling; at or after the reset time the
\* provider is eligible, the window is gone (a count of zero) and the next
\* success counts 1; and after a 429 mark every isRateLimited before the
\* mark's 60000 ms are over answers true, whatever successes were recorded
\* in between.
C29_LimitedWhileWindowFull ==
  Returned("rateLimiters") =>
    LET ops == probe.input.ops
        out == Val(probe.output)
        rpm == ProviderConfig(probe.input.name).rateLimit.rpm
        Before(i) == IF i = 1 THEN probe.input.start ELSE out[i - 1].limiter
        Open(i) == IsSet(Before(i)) /\ ops[i].at < Val(Before(i)).resetAt
    IN \A i \in DOMAIN ops :
         /\ ops[i].op = "isRateLimited" =>
              /\ Val(out[i].answer) = (Open(i) /\ Val(Before(i)).count >= rpm)
              /\ out[i].limiter = IF Open(i) THEN Before(i) ELSE Null
         /\ (ops[i].op = "trackRequest" /\ ~Open(i)) =>
              out[i].limiter = Some([count |-> 1, resetAt |-> ops[i].at + 60000])
         /\ ops[i].op = "markRateLimited" =>
              \A j \in DOMAIN ops :
                (j > i /\ ops[j].op = "isRateLimited"
                   /\ ops[j].at < ops[i].at + 60000)
                  => Val(out[j].answer)

\* A 429 mark at 0, a success at 30000, and the provider still limited one
\* millisecond before the mark's window ends.
C29_Witness ==
  /\ Returned("rateLimiters")
  /\ probe.input.start = Null
  /\ probe.input.ops = <<[op |-> "markRateLimited", at |-> 0],
                         [op |-> "trackRequest", at |-> 30000],
                         [op |-> "isRateLimited", at |-> 59999]>>
  /\ Val(probe.output)[2].limiter = Some([count |-> 1000, resetAt |-> 60000])
  /\ Val(probe.output)[3].answer = Some(TRUE)

\* The provider calls a log holds: all of them, and those to p.
ProviderCalls(log) == SelectSeq(log, LAMBDA e : e.event = "call")
ProviderCallsTo(log, p) ==
  SelectSeq(log, LAMBDA e : e.event = "call" /\ e.provider = p)

\* C30: in a generateCompletion call the attempts on a provider are numbered
\* 1, 2, ... up to at most retry.maxAttempts (3); an attempt after the first
\* follows the failure of the attempt before it on the same provider with an
\* error that is no rate-limit error, and the backoff sleep; the call issues
\* at most 3 provider calls per initialised provider in all; and while it
\* has not ended it is awaiting a provider call or a backoff sleep.
C30_AttemptsBounded ==
  \A c \in CallIds :
    LET log == calls[c].log
    IN /\ \A p \in ProviderNames :
            LET to == ProviderCallsTo(log, p)
            IN /\ Len(to) <= 3
               /\ \A k \in DOMAIN to : to[k].n = k
               /\ Len(to) > 0 => p \in providers
       /\ \A i \in DOMAIN log :
            (log[i].event = "call" /\ log[i].n > 1) =>
              /\ i > 2
              /\ log[i - 1] = Ev(log[i].provider, "sleep", BackoffMs(log[i].n - 1))
              /\ log[i - 2].event = "fail"
              /\ log[i - 2].provider = log[i].provider
              /\ log[i - 2].n = log[i].n - 1
              /\ ~isRateLimitError(Val(log[i - 2].error))
       /\ Len(ProviderCalls(log)) <= 3 * Cardinality(providers)
       /\ calls[c].gc = "running" => calls[c].pc \in {"calling", "sleeping"}
       /\ calls[c].gc \in {"returned", "threw"}
            => calls[c].pc \in {"resolved", "rejected"}

\* A call on a service with one initialised provider that made its three
\* attempts on it and threw: 3 provider calls, the most it may make.
C30_Witness ==
  \E c \in CallIds :
    /\ calls[c].gc = "threw"
    /\ Len(ProviderCalls(calls[c].log)) = 3 * Cardinality(providers)
    /\ Len(ProviderCallsTo(calls[c].log, ProviderOfPriority(1))) = 3

\* C31: in a generateCompletion call, the failure of attempt k on a provider
\* with an error that is no rate-limit error is followed, when k < 3, by a
\* sleep of 1000 ms (k = 1) or 2000 ms (k = 2) and then attempt k + 1 on the
\* same provider; the call sleeps at no other point: not after attempt 3,
\* not after a rate-limit error, not when it goes on to the next provider.
C31_BackoffBetweenAttempts ==
  \A c \in CallIds :
    LET log == calls[c].log
    IN \A i \in DOMAIN log :
         /\ log[i].event = "fail" =>
              IF log[i].n < 3 /\ ~isRateLimitError(Val(log[i].error))
              THEN /\ i < Len(log)
                   /\ log[i + 1].event = "sleep"
                   /\ log[i + 1].provider = log[i].provider
                   /\ log[i + 1].n = (IF log[i].n = 1 THEN 1000 ELSE 2000)
                   /\ i + 1 < Len(log) =>
                        log[i + 2] = Ev(log[i].provider, "call", log[i].n + 1)
              ELSE i < Len(log) => log[i + 1].event # "sleep"
         /\ log[i].event = "sleep" =>
              /\ i > 1
              /\ log[i - 1].event = "fail"
              /\ log[i - 1].provider = log[i].provider

\* A call that slept 1000 ms and 2000 ms between its three attempts on the
\* priority-1 provider and went on to the priority-2 provider at once.
C31_Witness ==
  \E c \in CallIds :
    /\ Len(calls[c].log) >= 9
    /\ calls[c].log[3] = Ev(ProviderOfPriority(1), "sleep", 1000)
    /\ calls[c].log[6] = Ev(ProviderOfPriority(1), "sleep", 2000)
    /\ calls[c].log[8] = Failure(ProviderOfPriority(1), 3, Err500)
    /\ calls[c].log[9] = Ev(ProviderOfPriority(2), "call", 1)

\* The step starts the completion call c.
Starts(c) == calls[c].pc = "idle" /\ calls'[c].pc # "idle"

\* C32: within a processing attempt the retrievals are issued only when both
\* files have been read; a scoring call starts only in the step in which
\* the four retrievals have settled and the prompts are built; the
\* synthesis call starts only when both scoring calls have resolved; and
\* the COMPLETED write is issued, with the tokens of the three responses,
\* only when the synthesis call has returned.
C32_StepsInOrder ==
  [][/\ (h'.pc = "w_retrieval" /\ h.pc # "w_retrieval") =>
          /\ h.pc = "w_files"
          /\ {Job.cvFileId, Job.projectReportFileId} \subseteq uploadedFile
     /\ \A a \in 1..QueueAttempts :
          /\ (Starts(<<a, "cv">>) \/ Starts(<<a, "project">>)) =>
               /\ a = CurrentAttempt
               /\ h.pc = "w_retrieval"
               /\ IsSet(h'.prompts)
               /\ Starts(<<a, "cv">>) /\ Starts(<<a, "project">>)
          /\ Starts(<<a, "synthesis">>) =>
               /\ a = CurrentAttempt
               /\ h.pc = "scoring"
               /\ calls'[<<a, "cv">>].pc = "resolved"
               /\ calls'[<<a, "project">>].pc = "resolved"
     /\ (h'.pc = "w_completed" /\ h.pc # "w_completed") =>
          /\ h.pc = "synthesis"
          /\ calls'[<<CurrentAttempt, "synthesis">>].gc = "returned"
     /\ (Len(statusLog') > Len(statusLog)
           /\ statusLog'[Len(statusLog')] = "COMPLETED") =>
          /\ h.pc = "w_completed"
          /\ calls[<<CurrentAttempt, "synthesis">>].pc = "resolved"]_vars

\* An attempt that is about to write COMPLETED: its three calls resolved.
C32_Witness ==
  /\ h.pc = "w_completed"
  /\ IsSet(h.prompts)
  /\ \A task \in Tasks : calls[<<CurrentAttempt, task>>].pc = "resolved"

\* ---------------------------------------------------------------------
\* The two scoring calls and the four retrievals of one attempt

\* The query whose context fills the requirements part of a task's prompt,
\* and the one that fills its criteria part.
RequirementsQuery(task) == IF task = "cv" THEN "jobRequirements" ELSE "projectRequirements"
CriteriaQuery(task) == IF task = "cv" THEN "cvCriteria" ELSE "projectCriteria"

\* What a query contributes to a prompt: the passages the store handed it
\* at or above the floor, joined; nothing when there are none.
Contribution(input, q) ==
  IF Retrieved(input, q)
  THEN Some(JoinTexts(SelectSeq(input.store[q].scoredChunks,
                                LAMBDA chunk : chunk.score >= minScore)))
  ELSE Null

\* The two scoring calls of an attempt start in one step, neither having
\* returned.
ScoringsIssuedTogether ==
  \A a \in 1..QueueAttempts :
    (Starts(<<a, "cv">>) \/ Starts(<<a, "project">>)) =>
      /\ Starts(<<a, "cv">>)
      /\ Starts(<<a, "project">>)
      /\ calls'[<<a, "cv">>].pc # "resolved"
      /\ calls'[<<a, "project">>].pc # "resolved"

\* The COMPLETED write stores each call's result under that call's fields.
PayloadByCall ==
  (Len(statusLog') > Len(statusLog) /\ statusLog'[Len(statusLog')] = "COMPLETED") =>
    LET cvEvaluation == calls[<<CurrentAttempt, "cv">>].result
        projectEvaluation == calls[<<CurrentAttempt, "project">>].result
        row == evaluationJob'[JobId]
    IN /\ calls[<<CurrentAttempt, "cv">>].pc = "resolved"
       /\ calls[<<CurrentAttempt, "project">>].pc = "resolved"
       /\ row.cvMatchRate = Some(cvEvaluation.score)
       /\ row.cvFeedback = cvEvaluation.feedback
       /\ row.projectScore = Some(projectEvaluation.score)
       /\ row.projectFeedback = projectEvaluation.feedback

\* Each prompt part holds what its own query retrieved.
EachRetrievalContributes ==
  Returned("buildPrompts") =>
    \A task \in {"cv", "project"} :
      /\ Val(probe.output)[task].requirements
           = Contribution(probe.input, RequirementsQuery(task))
      /\ Val(probe.output)[task].criteria
           = Contribution(probe.input, CriteriaQuery(task))

\* C33: the CV scoring and the project scoring are issued in one step,
\* before either has returned, and neither waits for the other; when the
\* attempt completes, the stored CV fields are those of the CV result and
\* the stored project fields those of the project result, whichever call
\* returned first.  Each of the four retrievals contributes its context to
\* its prompt whatever the other three did, a failure included.
C33_ScoringsIndependent ==
  /\ [][ScoringsIssuedTogether /\ PayloadByCall]_vars
  /\ []EachRetrievalContributes

\* The project scoring has returned while the CV scoring, issued with it,
\* is still with its provider.
C33_Witness ==
  /\ h.pc = "scoring"
  /\ calls[<<CurrentAttempt, "project">>].pc = "resolved"
  /\ calls[<<CurrentAttempt, "cv">>].pc = "calling"

\* ---------------------------------------------------------------------
\* The job record over its attempts

\* The writes of PROCESSING the store accepted.
ProcessingWrites == {i \in DOMAIN statusLog : statusLog[i] = "PROCESSING"}

\* C34: whenever no invocation of handleEvaluation is under way, the
\* attempts counter of the job equals the number of times the job was set
\* to PROCESSING.
C34_AttemptsCountProcessing ==
  (JobExists /\ h.pc = "none") =>
    evaluationJob[JobId].attempts = Cardinality(ProcessingWrites)

\* The writes of a final status the store accepted; each sets completedAt,
\* as each write of PROCESSING sets startedAt.
TerminalWrites == {i \in DOMAIN statusLog : statusLog[i] \in {"COMPLETED", "FAILED"}}

\* C35: startedAt and completedAt are each written at most once in the
\* life of a job (createdAt is written by the creation alone), and the
\* timestamps that are set are in the order createdAt <= startedAt <=
\* completedAt in every state, retries by the queue included.
C35_TimestampsOnceAndOrdered ==
  JobExists =>
    LET row == evaluationJob[JobId]
    IN /\ Cardinality(ProcessingWrites) <= 1
       /\ Cardinality(TerminalWrites) <= 1
       /\ IsSet(row.createdAt)
       /\ IsSet(row.startedAt) => Val(row.createdAt) <= Val(row.startedAt)
       /\ IsSet(row.completedAt) =>
            /\ Val(row.createdAt) <= Val(row.completedAt)
            /\ IsSet(row.startedAt) => Val(row.startedAt) <= Val(row.completedAt)

\* ---------------------------------------------------------------------
\* Token usage of a completed job

\* The job has just been written as COMPLETED.
Completes ==
  /\ Len(statusLog') > Len(statusLog)
  /\ statusLog'[Len(statusLog')] = "COMPLETED"

\* The tokens a task's response counts for under the plan: what its
\* provider reported, 0 when it reported no usage.
PlannedTokens(task) ==
  IF probe.input.usage[task] = Null THEN 0 ELSE Val(probe.input.usage[task])

\* C36: the tokensUsed stored with COMPLETED is the sum of the totals of
\* the three responses of the completing attempt, a response without usage
\* counting 0, and stays so; the stored provider and model are those of the
\* synthesis response of that attempt.
C36_TokensSummedOverAttempt ==
  /\ [][Completes =>
          LET row == evaluationJob'[JobId]
              synthesis == calls[<<CurrentAttempt, "synthesis">>].result
          IN /\ row.tokensUsed = Some(PlannedTokens("cv") + PlannedTokens("project")
                                        + PlannedTokens("synthesis"))
             /\ row.llmProvider = Some(synthesis.provider)
             /\ row.llmModel = Some(synthesis.model)]_vars
  /\ []((JobExists /\ probe.fn = "usage") =>
          (evaluationJob[JobId].status = "COMPLETED" =>
             evaluationJob[JobId].tokensUsed
               = Some(PlannedTokens("cv") + PlannedTokens("project")
                        + PlannedTokens("synthesis"))))

\* A job completed by the second backend's synthesis, the first having
\* answered the synthesis with 429 after it served both scorings; the CV
\* response carried no usage.
C36_Witness ==
  /\ probe.fn = "usage"
  /\ probe.input.limited = "synthesis"
  /\ probe.input.usage = [task \in Tasks |->
                            IF task = "cv" THEN Null
                            ELSE IF task = "project" THEN Some(3) ELSE Some(7)]
  /\ JobExists
  /\ evaluationJob[JobId].status = "COMPLETED"
  /\ evaluationJob[JobId].tokensUsed = Some(10)
  /\ evaluationJob[JobId].llmProvider = Some(llmConfig.providers[2].name)

\* ---------------------------------------------------------------------
\* Completion calls across the attempts of a job

\* The calls of the attempts that have ended.
EndedCalls == {c \in CallIds : c[1] <= bull.attemptsMade}

\* A call that is with a provider or waits to call one again.
Active(call) == call.pc \in {"calling", "sleeping"}

\* C37: once an attempt has ended with FAILED, its completion calls do
\* nothing more: none of them moves on (no further provider call), the
\* rate-limit state is not updated on their behalf, and no attempt runs
\* while a call of an earlier attempt is still under way.
C37_FailedAttemptIsQuiet ==
  /\ [][\A c \in EndedCalls :
          calls'[c] # calls[c] =>
            /\ rateLimiters' = rateLimiters
            /\ ~Active(calls'[c])]_vars
  /\ [](h.pc # "none" => \A c \in EndedCalls : ~Active(calls[c]))

\* ---------------------------------------------------------------------
\* Provider calls and the rate-limit state

\* The step issues a provider call of c to the backend.
IssuesTo(c, name) ==
  Len(ProviderCallsTo(calls'[c].log, name)) > Len(ProviderCallsTo(calls[c].log, name))

\* C38: no step issues a provider call to a backend that is marked
\* rate-limited, a call resuming after its backoff sleep included.
C38_NoCallWhileMarked ==
  [][\A c \in CallIds : \A name \in ProviderNames :
       IssuesTo(c, name) => ~Marked(name)]_vars

\* C39: the count of a window that holds no mark of a 429 never exceeds
\* the requests-per-minute ceiling of its backend.
C39_CountWithinCeiling ==
  \A name \in ProviderNames :
    (IsSet(rateLimiters[name]) /\ Val(rateLimiters[name]).count < MarkedCount) =>
      Val(rateLimiters[name]).count <= ProviderConfig(name).rateLimit.rpm

\* ---------------------------------------------------------------------
\* The job record and its task

\* C40: a job record in QUEUED has a task in the queue under the job's id.
C40_QueuedJobHasTask ==
  (JobExists /\ evaluationJob[JobId].status = "QUEUED") => bull.state # "none"

====
